---------------------------- MODULE Spec2Model ----------------------------
(***************************************************************************)
(* FreightIQ: the rate server (src/server/index.js, which also holds the   *)
(* pricing engine and the RMS cost connector) and the training store       *)
(* (src/server/services/training-store.js, which also holds the LCI market *)
(* connector).                                                             *)
(*                                                                         *)
(* Numbers.  Money is an integer count of cents wherever the code has      *)
(* rounded it with Math.round(x * 100) / 100, and a count of 1/100 cent    *)
(* ("u", 1e-4 USD) where the code keeps an unrounded product of a cent     *)
(* amount and a percentage.  Fractions are integers over a stated power of *)
(* ten.  Products are exact; Math.round is round-half-up on the exact      *)
(* value, except that at an exact tie (x.5) the IEEE double the code       *)
(* really holds lies a few ulp to either side, so a tie yields either      *)
(* neighbour.  A Math.random() sample is a count of thousandths, 0..999.   *)
(***************************************************************************)
EXTENDS Integers, Sequences, FiniteSets, TLC

VARIABLES
    call,           \* a pending or finished call of one pure service function
    quote,          \* the POST /api/predict-rate request being served
    dataFile,       \* data/training-data.json
    analyticsFile,  \* data/analytics.json
    reqs            \* the store requests (confirm, decline, analytics)

vars == <<call, quote, dataFile, analyticsFile, reqs>>

(***************************************************************************)
(* Arithmetic helpers                                                      *)
(***************************************************************************)

\* The outcomes of Math.round(a * m / d) for integer a, m >= 0, d > 0:
\* floor(x + 0.5), either neighbour at an exact tie.  a is split by d so
\* that no intermediate exceeds 32 bits.
MulDivRounds(a, m, d) ==
    LET q   == a \div d
        t   == (a % d) * m
        fl  == q * m + (t \div d)
        rem == t % d
    IN  IF 2 * rem < d THEN {fl}
        ELSE IF 2 * rem > d THEN {fl + 1}
        ELSE {fl, fl + 1}

\* Math.max(lo, Math.min(hi, x))
Clamp(lo, hi, x) == IF x < lo THEN lo ELSE IF x > hi THEN hi ELSE x

\* A natural number too large for 32 bits is the sequence of its base-1000
\* digits, least significant first.
RECURSIVE ToBig(_)
ToBig(n) == IF n = 0 THEN <<>> ELSE <<n % 1000>> \o ToBig(n \div 1000)

RECURSIVE BigVal(_)
BigVal(x) == IF x = <<>> THEN 0 ELSE Head(x) + 1000 * BigVal(Tail(x))

\* x * m + carry, for 0 <= m < 2 000 000.
RECURSIVE BigMul(_, _, _)
BigMul(x, m, carry) ==
    IF x = <<>> THEN ToBig(carry)
    ELSE LET p == Head(x) * m + carry
         IN  <<p % 1000>> \o BigMul(Tail(x), m, p \div 1000)

\* The outcomes of Math.round(x / 1000^k), k >= 1: either neighbour at a tie.
BigRounds(x, k) ==
    LET hi       == IF Len(x) > k THEN BigVal(SubSeq(x, k + 1, Len(x))) ELSE 0
        top      == IF Len(x) >= k THEN x[k] ELSE 0
        restZero == \A i \in 1..(k - 1) : i > Len(x) \/ x[i] = 0
    IN  IF top < 500 THEN {hi}
        ELSE IF top > 500 \/ ~restZero THEN {hi + 1}
        ELSE {hi, hi + 1}

\* The outcomes of Math.round(a / b * 10^k) for integer a and b > 0, by long
\* division (a * 10^k itself may not fit 32 bits).
RECURSIVE DivDigits(_, _, _, _)
DivDigits(q, r, b, k) ==
    IF k = 0
    THEN (IF 2 * r < b THEN {q} ELSE IF 2 * r > b THEN {q + 1} ELSE {q, q + 1})
    ELSE DivDigits(q * 10 + (r * 10) \div b, (r * 10) % b, b, k - 1)

DivScaledRounds(a, b, k) == DivDigits(a \div b, a % b, b, k)

(***************************************************************************)
(* RMSConnector                                                            *)
(***************************************************************************)

\* A request body, and the params object of a service call, is a function
\* from the field names it carries to their values.  Str is the value of a
\* string field as the code destructures it, Undefined when it is absent.
Undefined == "<undefined>"

Has(params, k) == k \in DOMAIN params

Str(params, k) == IF Has(params, k) THEN params[k] ELSE Undefined

\* The property names every object literal inherits from Object.prototype.
\* table[key] || fallback with one of them as the key yields the inherited
\* member (a function, or the prototype object), which is truthy and not a
\* number, so a product with it is NaN.
ObjectPrototypeNames ==
    {"constructor", "toString", "toLocaleString", "valueOf", "hasOwnProperty",
     "isPrototypeOf", "propertyIsEnumerable", "__proto__", "__defineGetter__",
     "__defineSetter__", "__lookupGetter__", "__lookupSetter__"}

Inherited(key) == key \in ObjectPrototypeNames

\* `${origin}-${destination}`
RouteKey(origin, destination) == <<origin, destination>>

\* perKm in cents per km, perTon and perCubicMeter in USD.
initializeBaseCosts ==
    [k \in {<<"Shanghai", "Los Angeles">>, <<"Los Angeles", "Shanghai">>,
            <<"Hamburg", "New York">>, <<"New York", "Hamburg">>,
            <<"Singapore", "Rotterdam">>, <<"default">>} |->
        CASE k = <<"Shanghai", "Los Angeles">> ->
                 [distance |-> 10000, perKm |-> 15, perTon |-> 1200, perCubicMeter |-> 80]
          [] k = <<"Los Angeles", "Shanghai">> ->
                 [distance |-> 10000, perKm |-> 12, perTon |-> 1000, perCubicMeter |-> 70]
          [] k = <<"Hamburg", "New York">> ->
                 [distance |-> 6000, perKm |-> 18, perTon |-> 1400, perCubicMeter |-> 90]
          [] k = <<"New York", "Hamburg">> ->
                 [distance |-> 6000, perKm |-> 16, perTon |-> 1300, perCubicMeter |-> 85]
          [] k = <<"Singapore", "Rotterdam">> ->
                 [distance |-> 12000, perKm |-> 14, perTon |-> 1100, perCubicMeter |-> 75]
          [] OTHER ->
                 [distance |-> 8000, perKm |-> 16, perTon |-> 1200, perCubicMeter |-> 80]]

\* Surcharge fractions, in percent of baseCost.
initializeSurcharges ==
    [fuel |-> 8, security |-> 2, hazardous |-> 15, refrigerated |-> 12,
     heavyCargo |-> 5, express |-> 20]

\* this.baseCosts[routeKey] || this.baseCosts['default']
RouteCosts(origin, destination) ==
    IF RouteKey(origin, destination) \in DOMAIN initializeBaseCosts
    THEN initializeBaseCosts[RouteKey(origin, destination)]
    ELSE initializeBaseCosts[<<"default">>]

\* distanceCost + weightCost + volumeCost before the random variation, in
\* cents (weight in kg; every perTon is a multiple of 10, so weight/1000 *
\* perTon is a whole number of cents for a whole number of kg).
RawBaseCost(origin, destination, weight, volume) ==
    LET routeCosts == RouteCosts(origin, destination)
    IN  routeCosts.perKm * routeCosts.distance
        + (weight * routeCosts.perTon) \div 10
        + volume * routeCosts.perCubicMeter * 100

\* calculateBaseCost with Math.random() = rnd/1000: the possible results, in
\* cents.  variation = 0.9 + rnd/1000 * 0.2 = (9000 + 2 rnd) / 10000.
calculateBaseCost(origin, destination, weight, volume, rnd) ==
    MulDivRounds(RawBaseCost(origin, destination, weight, volume),
                 9000 + 2 * rnd, 10000)

\* surchargeTotal with each surcharge taken of the running total (base plus
\* the surcharges so far) instead of baseCost: compounded, not summed.
surchargeTotal_compounded(cargoType, weight, serviceType, baseCost) ==
    LET s  == initializeSurcharges
        t1 == baseCost * 100 + baseCost * s.fuel
        t2 == t1 + (t1 * s.security) \div 100
        t3 == IF cargoType = "hazardous" THEN t2 + (t2 * s.hazardous) \div 100 ELSE t2
        t4 == IF cargoType = "refrigerated" THEN t3 + (t3 * s.refrigerated) \div 100 ELSE t3
        t5 == IF weight > 1000 THEN t4 + (t4 * s.heavyCargo) \div 100 ELSE t4
        t6 == IF serviceType = "express" THEN t5 + (t5 * s.express) \div 100 ELSE t5
    IN  t6 - baseCost * 100

\* The sum the code accumulates in totalSurcharges, term by term, in u
\* (1/100 cent): each term is baseCost (cents) times a percentage.
surchargeTotal(cargoType, weight, serviceType, baseCost) ==
    LET s  == initializeSurcharges
        t1 == baseCost * s.fuel
        t2 == t1 + baseCost * s.security
        t3 == IF cargoType = "hazardous" THEN t2 + baseCost * s.hazardous ELSE t2
        t4 == IF cargoType = "refrigerated" THEN t3 + baseCost * s.refrigerated ELSE t3
        t5 == IF weight > 1000 THEN t4 + baseCost * s.heavyCargo ELSE t4
        t6 == IF serviceType = "express" THEN t5 + baseCost * s.express ELSE t5
    IN  t6

\* calculateSurcharges: Math.round(totalSurcharges * 100) / 100, in cents.
calculateSurcharges(cargoType, weight, serviceType, baseCost) ==
    MulDivRounds(surchargeTotal(cargoType, weight, serviceType, baseCost), 1, 100)

\* getForwarderAdjustment without the volume discount of forwarder-001.
getForwarderAdjustment_noDiscount(forwarderId) ==
    CASE forwarderId = "forwarder-003" -> 105
      [] OTHER -> 100

\* adjustments[forwarderId] || adjustments['default'], in percent, for a
\* forwarderId that is not Inherited.
getForwarderAdjustment(forwarderId) ==
    CASE forwarderId = "forwarder-001" -> 95
      [] forwarderId = "forwarder-002" -> 100
      [] forwarderId = "forwarder-003" -> 105
      [] OTHER -> 100

\* The CostData records getCostData(params) can return once its delay has
\* elapsed, with Math.random() = rnd/1000.  baseCost, surcharges and
\* totalCost are in u (1/100 cent): the code returns baseCost *
\* forwarderAdjustment unrounded.  rawBaseCost is the local `baseCost` the
\* surcharges were computed from, in cents.  nan: volume was undefined, so
\* volume * perCubicMeter and with it every amount is NaN; or forwarderId was
\* Inherited, so forwarderAdjustment is not a number and baseCost and
\* totalCost are NaN.
getCostData(params, rnd) ==
    LET volume == IF Has(params, "volume") THEN params.volume ELSE 0
        forwarderAdjustment == getForwarderAdjustment(Str(params, "forwarderId"))
    IN  { [nan         |-> ~Has(params, "volume") \/ Inherited(Str(params, "forwarderId")),
           rawBaseCost |-> bs[1],
           baseCost    |-> bs[1] * forwarderAdjustment,
           surcharges  |-> bs[2] * 100,
           totalCost   |-> bs[1] * forwarderAdjustment + bs[2] * 100,
           forwarderId |-> Str(params, "forwarderId")]
          : bs \in UNION {
              { <<baseCost, s>> : s \in calculateSurcharges(
                    Str(params, "cargoType"), params.weight,
                    Str(params, "serviceType"), baseCost) }
              : baseCost \in calculateBaseCost(
                    params.origin, params.destination, params.weight, volume, rnd) } }

(***************************************************************************)
(* LCIConnector                                                            *)
(***************************************************************************)

\* popularity and historicalVolatility in hundredths.
getRouteData(origin, destination) ==
    LET routeKey == RouteKey(origin, destination)
    IN  CASE routeKey = <<"Shanghai", "Los Angeles">> ->
                 [popularity |-> 90, historicalVolatility |-> 15, competitionLevel |-> "high"]
          [] routeKey = <<"Los Angeles", "Shanghai">> ->
                 [popularity |-> 85, historicalVolatility |-> 12, competitionLevel |-> "high"]
          [] routeKey = <<"Hamburg", "New York">> ->
                 [popularity |-> 80, historicalVolatility |-> 18, competitionLevel |-> "medium"]
          [] routeKey = <<"New York", "Hamburg">> ->
                 [popularity |-> 75, historicalVolatility |-> 16, competitionLevel |-> "medium"]
          [] routeKey = <<"Singapore", "Rotterdam">> ->
                 [popularity |-> 70, historicalVolatility |-> 20, competitionLevel |-> "low"]
          [] OTHER ->
                 [popularity |-> 60, historicalVolatility |-> 25, competitionLevel |-> "medium"]

\* The clock and the Math.random() samples one getMarketData call reads:
\* hour is moment().hour(); sin is sin(dayOfYear / 365 * 2 pi) in
\* thousandths; the samples are those of congestion, bunkerFuel,
\* shanghaiIndex, getWeatherImpact, calculateCompetitivenessIndex and
\* calculateVolatility, in that order.
MarketDraws(hours, sins, samples) ==
    [hour : hours, sin : sins, congestion : samples, bunkerFuel : samples,
     shanghaiIndex : samples, weather : samples, index : samples,
     volatility : samples]

\* impacts[weatherEvents[Math.floor(Math.random() * 4)]], in hundredths.
getWeatherImpact(rnd) ==
    LET event == <<"normal", "storm", "fog", "ice">>[(rnd * 4) \div 1000 + 1]
    IN  [event  |-> event,
         impact |-> CASE event = "normal" -> 0 [] event = "storm" -> 10
                      [] event = "fog" -> 5 [] OTHER -> 15]

\* congestion in 1e-4; bunkerFuel and shanghaiIndex in cents (both sums are
\* whole cents before Math.round).  portDelays and economicIndicators are
\* computed and dropped by getMarketData, and are left out.
getCurrentMarketConditions(d) ==
    LET congestionBase == 3000 + (IF d.hour > 8 /\ d.hour < 18 THEN 2000 ELSE 0)
        congestion     == IF congestionBase + 3 * d.congestion > 10000 THEN 10000
                          ELSE congestionBase + 3 * d.congestion
    IN  [congestion    |-> congestion,
         bunkerFuel    |-> 45000 + 5 * d.sin + 2 * d.bunkerFuel - 1000,
         shanghaiIndex |-> 120000 + 20 * d.sin + 10 * d.shanghaiIndex - 5000,
         weatherImpact |-> getWeatherImpact(d.weather)]

\* In 1e-5: 0.5 + popularity * 0.3 - congestion * 0.2 + competition bonus
\* + (Math.random() - 0.5) * 0.1, clamped to [0, 1].
calculateCompetitivenessIndex(routeData, marketConditions, rnd) ==
    Clamp(0, 100000,
          50000 + routeData.popularity * 300 - marketConditions.congestion * 2
          + (CASE routeData.competitionLevel = "high" -> 20000
               [] routeData.competitionLevel = "medium" -> 10000
               [] OTHER -> 0)
          + (rnd - 500) * 10)

\* The outcomes of Math.round(adjustment * 1000) / 1000, in thousandths.  The
\* four terms are brought over the common denominator 36 000 000.
calculateMarketAdjustment(competitivenessIndex, marketConditions) ==
    MulDivRounds(36 * (15 * marketConditions.congestion
                       - 2 * (competitivenessIndex - 50000))
                 + 80 * (marketConditions.bunkerFuel - 45000)
                 + 15 * (marketConditions.shanghaiIndex - 120000),
                 1, 36000)

\* calculateVolatility adding 0.5 and 0.3 where the code adds 0.05 and 0.03,
\* and returning the sum as it is.
calculateVolatility_unclamped(routeData, marketConditions, rnd) ==
    routeData.historicalVolatility * 1000
    + (IF marketConditions.congestion > 7000 THEN 50000 ELSE 0)
    + (IF routeData.popularity < 50 THEN 30000 ELSE 0)
    + rnd * 5

\* In 1e-5, clamped to [0.05, 0.5].
calculateVolatility(routeData, marketConditions, rnd) ==
    Clamp(5000, 50000,
          routeData.historicalVolatility * 1000
          + (IF marketConditions.congestion > 7000 THEN 5000 ELSE 0)
          + (IF routeData.popularity < 50 THEN 3000 ELSE 0)
          + rnd * 5)

\* In thousandths, clamped to [0.5, 1].
assessDataQuality(routeData, marketConditions) ==
    Clamp(500, 1000,
          800 + routeData.popularity
          - (IF marketConditions.congestion > 8000 THEN 100 ELSE 0)
          - (IF marketConditions.weatherImpact.impact > 10 THEN 50 ELSE 0))

\* The MarketData records getMarketData(params) can return under draws d.
getMarketData(params, d) ==
    LET routeData            == getRouteData(params.origin, params.destination)
        marketConditions     == getCurrentMarketConditions(d)
        competitivenessIndex ==
            calculateCompetitivenessIndex(routeData, marketConditions, d.index)
    IN  { [competitivenessIndex |-> competitivenessIndex,
           adjustment           |-> adjustment,
           volatility           |-> calculateVolatility(routeData, marketConditions,
                                                        d.volatility),
           routePopularity      |-> routeData.popularity,
           congestionLevel      |-> marketConditions.congestion,
           bunkerFuelPrice      |-> marketConditions.bunkerFuel,
           shanghaiIndex        |-> marketConditions.shanghaiIndex,
           historicalVolatility |-> routeData.historicalVolatility,
           dataQuality          |-> assessDataQuality(routeData, marketConditions)]
          : adjustment \in
              calculateMarketAdjustment(competitivenessIndex, marketConditions) }

(***************************************************************************)
(* FreightIQEngine                                                         *)
(***************************************************************************)

\* calculateConfidenceScore with a penalty of 0.4 for a volatile market
\* where the code has 0.1: the sum can fall below the clamp's lower bound.
calculateConfidenceScore_steepPenalty(params) ==
    LET c1 == IF params.marketData.volatility > 30000 THEN 80 - 40 ELSE 80
        c2 == IF Str(params, "cargoType") \in {"hazardous", "oversized"} THEN c1 - 5 ELSE c1
        c3 == IF params.weight > 2000 THEN c2 - 5 ELSE c2
        c4 == IF params.marketData.routePopularity > 70 THEN c3 + 5 ELSE c3
    IN  Clamp(50, 95, c4)

\* calculateConfidenceScore with the clamp's bounds written as percentages
\* (50 and 95) while the score is a fraction.
calculateConfidenceScore_percentClamp(params) ==
    LET c1 == IF params.marketData.volatility > 30000 THEN 80 - 10 ELSE 80
        c2 == IF Str(params, "cargoType") \in {"hazardous", "oversized"} THEN c1 - 5 ELSE c1
        c3 == IF params.weight > 2000 THEN c2 - 5 ELSE c2
        c4 == IF params.marketData.routePopularity > 70 THEN c3 + 5 ELSE c3
    IN  Clamp(5000, 9500, c4)

\* In hundredths.  params: {marketData, cargoType, weight} (costData is
\* destructured and not read).
calculateConfidenceScore(params) ==
    LET c1 == IF params.marketData.volatility > 30000 THEN 80 - 10 ELSE 80
        c2 == IF Str(params, "cargoType") \in {"hazardous", "oversized"} THEN c1 - 5 ELSE c1
        c3 == IF params.weight > 2000 THEN c2 - 5 ELSE c2
        c4 == IF params.marketData.routePopularity > 70 THEN c3 + 5 ELSE c3
    IN  Clamp(50, 95, c4)

\* cargoMultipliers[cargoType] || 1.0, in tenths, for a cargoType that is
\* not Inherited.
cargoMultiplier(cargoType) ==
    CASE cargoType = "general" -> 10
      [] cargoType = "hazardous" -> 13
      [] cargoType = "refrigerated" -> 12
      [] cargoType = "oversized" -> 14
      [] cargoType = "fragile" -> 11
      [] OTHER -> 10

\* serviceMultipliers[serviceType] || 1.0, in tenths, for a serviceType that
\* is not Inherited.
serviceMultiplier(serviceType) ==
    CASE serviceType = "standard" -> 10
      [] serviceType = "express" -> 13
      [] serviceType = "economy" -> 8
      [] serviceType = "premium" -> 15
      [] OTHER -> 10

\* The outcomes of calculateBasePrediction, in cents.  The product
\* baseCost (u) * cargo/10 * heavy/10 * volume/100 * service/10 *
\* (1000 + adjustment)/1000 is a count of 1e-12 cent once multiplied by 100;
\* the surcharges, whole cents, are added to the rounded product.
\* 1 + adjustment is positive for every MarketData (adjustment > -0.2).
calculateBasePrediction(params) ==
    LET costData == params.costData
        product  ==
            BigMul(BigMul(BigMul(BigMul(BigMul(BigMul(
                ToBig(costData.baseCost),
                cargoMultiplier(Str(params, "cargoType")), 0),
                IF params.weight > 1000 THEN 11 ELSE 10, 0),
                IF Has(params, "volume") /\ params.volume > 50 THEN 105 ELSE 100, 0),
                serviceMultiplier(Str(params, "serviceType")), 0),
                1000 + params.marketData.adjustment, 0),
                100, 0)
    IN  { basePrice + costData.surcharges \div 100 : basePrice \in BigRounds(product, 4) }

\* calculateBasePrediction returns NaN: costData.baseCost is NaN, or one of
\* the two multipliers looked up is not a number.
calculateBasePredictionNaN(params) ==
    \/ params.costData.nan
    \/ Inherited(Str(params, "cargoType"))
    \/ Inherited(Str(params, "serviceType"))

\* getCustomerMultiplier with the tier of one customer looked up by its
\* identifier instead of derived from the identifier's length.
getCustomerMultiplier_byIdentity(customerId) ==
    IF customerId = "customer-002" THEN 90
    ELSE <<100, 95, 90, 105>>[(Len(customerId) % 4) + 1]

\* customerTiers[Object.keys(customerTiers)[customerId.length % 4]], in
\* percent.  customerId is a string here: for undefined the code throws.
getCustomerMultiplier(customerId) ==
    <<100, 95, 90, 105>>[(Len(customerId) % 4) + 1]

\* seasonalMultipliers[moment().month()], in percent; month is 0..11.
getSeasonalAdjustment(month) ==
    <<5, 2, 0, -2, 0, 3, 8, 10, 5, 0, -2, 3>>[month + 1]

\* applyBayesianOptimization with a random factor of 1 or 1.01 applied
\* before rounding.
applyBayesianOptimization_jittered(params, month) ==
    UNION { BigRounds(
              BigMul(BigMul(BigMul(BigMul(
                  ToBig(params.basePrediction),
                  getCustomerMultiplier(params.customerId), 0),
                  1000000 + params.marketData.competitivenessIndex, 0),
                  100 + getSeasonalAdjustment(month), 0),
                  jitter, 0),
              4) : jitter \in {100, 101} }

\* The outcomes of applyBayesianOptimization, in cents: basePrediction *
\* customer/100 * (1 + competitivenessIndex * 0.1) * (1 + seasonal/100) is a
\* count of 1e-12 cent once multiplied by 100.
applyBayesianOptimization(params, month) ==
    BigRounds(
        BigMul(BigMul(BigMul(BigMul(
            ToBig(params.basePrediction),
            getCustomerMultiplier(params.customerId), 0),
            1000000 + params.marketData.competitivenessIndex, 0),
            100 + getSeasonalAdjustment(month), 0),
            100, 0),
        4)

\* generateConfidenceBand with its two ends exchanged.
generateConfidenceBand_endsSwapped(price, confidence) ==
    LET band == (100 - confidence) * 3
    IN  [lower      : MulDivRounds(price, 1000 + band, 1000),
         upper      : MulDivRounds(price, 1000 - band, 1000),
         percentage : MulDivRounds(band, 1, 10)]

\* The confidence bands generateConfidenceBand can return: price in cents,
\* confidence in hundredths; bandPercentage = (100 - confidence) * 3 / 1000.
generateConfidenceBand(price, confidence) ==
    LET band == (100 - confidence) * 3
    IN  [lower      : MulDivRounds(price, 1000 - band, 1000),
         upper      : MulDivRounds(price, 1000 + band, 1000),
         percentage : MulDivRounds(band, 1, 10)]

\* The margin ranges calculateMarginRange can return: absolute, minMargin
\* and maxMargin in cents, percentage in hundredths of a percent;
\* predictedPrice in cents, costData.baseCost in u and positive.
calculateMarginRange(predictedPrice, costData) ==
    LET margin == predictedPrice * 100 - costData.baseCost
    IN  [absolute   : MulDivRounds(margin, 1, 100),
         percentage : DivScaledRounds(margin, costData.baseCost, 4),
         minMargin  : MulDivRounds(margin, 8, 1000),
         maxMargin  : MulDivRounds(margin, 12, 1000)]

\* The outcomes of predictOptimalPrice(params) once its processing delay has
\* elapsed, in calendar month `month`: the returned prediction, or the
\* TypeError that customerId.length throws when customerId is undefined
\* (after calculateBasePrediction, before anything is returned).  price in
\* cents, mlAdjustment in u; nan: the base prediction is NaN and so is
\* every amount here, confidence excepted.
predictOptimalPrice(params, month) ==
    IF ~Has(params, "customerId")
    THEN { [throws  |-> TRUE,
            message |-> "Cannot read properties of undefined (reading 'length')"] }
    ELSE LET confidenceScore == calculateConfidenceScore(params)
         IN  UNION { UNION {
               { [throws         |-> FALSE,
                  nan            |-> calculateBasePredictionNaN(params),
                  price          |-> optimizedPrediction,
                  confidence     |-> confidenceScore,
                  confidenceBand |-> confidenceBand,
                  marginRange    |-> marginRange,
                  mlAdjustment   |-> optimizedPrediction * 100 - params.costData.baseCost]
                 : confidenceBand \in generateConfidenceBand(optimizedPrediction,
                                                             confidenceScore),
                   marginRange \in calculateMarginRange(optimizedPrediction,
                                                        params.costData) }
               : optimizedPrediction \in applyBayesianOptimization(
                     [basePrediction |-> basePrediction,
                      customerId     |-> params.customerId,
                      marketData     |-> params.marketData], month) }
             : basePrediction \in calculateBasePrediction(params) }

(***************************************************************************)
(* Inputs                                                                  *)
(***************************************************************************)

\* The function f restricted to the field names in S.
Restrict(f, S) == [k \in S |-> f[k]]

\* Math.random() samples, in thousandths: both ends of [0, 1) and two
\* interior points.
Samples == {0, 250, 500, 999}

CargoTypes == {"general", "hazardous", "refrigerated", "oversized", "fragile", "high-value"}

ServiceTypes == {"standard", "express", "economy", "premium"}

Weights == {1, 500, 1000, 1001, 2000, 2500}

(***************************************************************************)
(* State shared by the specifications                                      *)
(***************************************************************************)

NoCall == [fn |-> "none", pc |-> "idle"]

NoQuote == [pc |-> "idle"]

\* Both documents as initializeDataStore writes them, and no store request.
StoreIdle ==
    /\ dataFile = [ok |-> TRUE, bookings |-> <<>>, declines |-> <<>>]
    /\ analyticsFile = [ok |-> TRUE, totalRequests |-> 0, totalBookings |-> 0,
                        totalDeclines |-> 0, winRate |-> <<0, 1>>]
    /\ reqs = <<>>

(***************************************************************************)
(* SpecCalls: one call of a service function, over its inputs              *)
(***************************************************************************)

CostParams ==
    { Restrict(p, DOMAIN p \ drop) :
        p \in [origin      : {"Shanghai", "Tokyo"},
               destination : {"Los Angeles"},
               cargoType   : CargoTypes,
               weight      : Weights,
               volume      : {0, 5},
               serviceType : ServiceTypes,
               forwarderId : {"forwarder-001", "forwarder-003", "forwarder-777",
                              "constructor"}],
        drop \in {{}, {"volume"}, {"serviceType", "forwarderId"}} }

\* volatility in 1e-5 and routePopularity in hundredths, within and beyond
\* the ranges getMarketData produces.
ConfidenceParams ==
    [marketData : [volatility      : {0, 5000, 30000, 30001, 50000, 100000},
                   routePopularity : {0, 60, 70, 71, 90, 100}],
     cargoType  : CargoTypes,
     weight     : Weights]

\* CostData and MarketData handed to the engine's functions: amounts in u,
\* adjustment in thousandths, competitivenessIndex and volatility in 1e-5,
\* routePopularity in hundredths.  The values are such that no rounding in
\* the engine falls on an exact half, where the result depends on the last
\* bits of the double and MulDivRounds and BigRounds allow both neighbours.
CallCostData ==
    { [nan |-> FALSE, baseCost |-> 29450665, surcharges |-> 3100100],
      [nan |-> FALSE, baseCost |-> 14186340, surcharges |-> 6079900] }

CallMarketData ==
    { [adjustment |-> 13, competitivenessIndex |-> 12345, volatility |-> 12000,
       routePopularity |-> 90],
      [adjustment |-> 57, competitivenessIndex |-> 84321, volatility |-> 34995,
       routePopularity |-> 60] }

\* cargoType and serviceType inside and outside the engine's two tables.
BasePredictionParams ==
    { Restrict(p, DOMAIN p \ drop) :
        p \in [costData    : CallCostData,
               marketData  : CallMarketData,
               cargoType   : CargoTypes \cup {"livestock", "constructor"},
               weight      : {500, 2500},
               volume      : {5, 60},
               serviceType : ServiceTypes \cup {"overnight", "toString"}],
        drop \in {{}, {"serviceType"}} }

\* predictOptimalPrice parameters, customerId apart: those for which the
\* confidence score is a whole number of tenths (an even number of its 0.05
\* steps apply), so that the band percentage, too, is no exact half, nor is
\* any other amount of the predictions for them.
PredictionParams ==
    { p \in [costData    : { [nan |-> FALSE, baseCost |-> 29450665, surcharges |-> 3100100],
                             [nan |-> FALSE, baseCost |-> 12835260, surcharges |-> 1351100] },
             marketData  : CallMarketData,
             cargoType   : {"general", "hazardous"},
             weight      : {500, 2500},
             volume      : {5},
             serviceType : {"standard", "economy"},
             forwarderId : {"forwarder-001"}] :
        ((IF p.cargoType = "hazardous" THEN 1 ELSE 0)
         + (IF p.weight > 2000 THEN 1 ELSE 0)
         + (IF p.marketData.routePopularity > 70 THEN 1 ELSE 0)) % 2 = 0 }

\* customerIds of lengths 12, 12, 4, 1, 2 and 3.
CustomerIds == {"customer-001", "customer-002", "acme", "a", "cu", "abc"}

\* moment().month() at an invocation: January, March, August.
CallMonths == {0, 2, 7}

\* The routes getMarketData is asked about: the five of getRouteData's table
\* and two that fall to its default entry.
MarketParams ==
    { [origin |-> r[1], destination |-> r[2], cargoType |-> "general"]
      : r \in { <<"Shanghai", "Los Angeles">>, <<"Los Angeles", "Shanghai">>,
                <<"Hamburg", "New York">>, <<"New York", "Hamburg">>,
                <<"Singapore", "Rotterdam">>, <<"Rotterdam", "Singapore">>,
                <<"Mumbai", "Dubai">> } }

\* The draws of a direct getMarketData call: every hour of the day, the
\* sine at its extremes and at zero, each sample at both ends of [0, 1).
CallDraws == MarketDraws(0 .. 23, {-1000, 0, 1000}, {0, 999})

InitCalls ==
    /\ call \in { [fn |-> "getCostData", pc |-> "delay", params |-> p] : p \in CostParams }
             \cup { [fn |-> "getMarketData", pc |-> "delay", params |-> p]
                    : p \in MarketParams }
             \cup { [fn |-> "calculateConfidenceScore", pc |-> "called", params |-> p]
                    : p \in ConfidenceParams }
             \cup { [fn |-> "calculateBasePrediction", pc |-> "called", params |-> p]
                    : p \in BasePredictionParams }
             \cup { [fn |-> "predictOptimalPrice", pc |-> "called", params |-> p,
                     results |-> <<>>] : p \in PredictionParams }
    /\ quote = NoQuote
    /\ StoreIdle

\* await this.simulateAPIDelay() has elapsed: the rest of getCostData runs
\* to its return.
GetCostDataReturn ==
    /\ call.fn = "getCostData" /\ call.pc = "delay"
    /\ \E rnd \in Samples : \E costData \in getCostData(call.params, rnd) :
          call' = [call EXCEPT !.pc = "done"] @@ [result |-> costData]
    /\ UNCHANGED <<quote, dataFile, analyticsFile, reqs>>

CalculateConfidenceScoreReturn ==
    /\ call.fn = "calculateConfidenceScore" /\ call.pc = "called"
    /\ call' = [call EXCEPT !.pc = "done"]
                @@ [result |-> calculateConfidenceScore(call.params)]
    /\ UNCHANGED <<quote, dataFile, analyticsFile, reqs>>

CalculateBasePredictionReturn ==
    /\ call.fn = "calculateBasePrediction" /\ call.pc = "called"
    /\ \E basePrice \in calculateBasePrediction(call.params) :
          call' = [call EXCEPT !.pc = "done"]
                  @@ [result |-> [nan   |-> calculateBasePredictionNaN(call.params),
                                  price |-> basePrice]]
    /\ UNCHANGED <<quote, dataFile, analyticsFile, reqs>>

\* One invocation of predictOptimalPrice with the call's parameters and
\* some customerId, made in some calendar month, returns; the call is done
\* after two of them.
PredictOptimalPriceReturn ==
    /\ call.fn = "predictOptimalPrice" /\ call.pc = "called"
    /\ \E customerId \in CustomerIds, month \in CallMonths :
       \E prediction \in predictOptimalPrice(
            call.params @@ [customerId |-> customerId], month) :
          call' = [call EXCEPT
                     !.results = Append(@, [customerId |-> customerId, month |-> month,
                                            prediction |-> prediction]),
                     !.pc = IF Len(call.results) = 1 THEN "done" ELSE "called"]
    /\ UNCHANGED <<quote, dataFile, analyticsFile, reqs>>

\* getMarketData returns after simulateAPIDelay.
GetMarketDataReturn ==
    /\ call.fn = "getMarketData" /\ call.pc = "delay"
    /\ \E d \in CallDraws : \E marketData \in getMarketData(call.params, d) :
          call' = [call EXCEPT !.pc = "done"] @@ [result |-> marketData]
    /\ UNCHANGED <<quote, dataFile, analyticsFile, reqs>>

NextCalls ==
    \/ PredictOptimalPriceReturn
    \/ GetMarketDataReturn
    \/ GetCostDataReturn
    \/ CalculateConfidenceScoreReturn
    \/ CalculateBasePredictionReturn

SpecCalls == InitCalls /\ [][NextCalls]_vars

\* C2: the confidence score calculateConfidenceScore returns lies in
\* [0.5, 0.95] for every cargoType, weight, market volatility and route
\* popularity.
C2_ConfidenceInRange ==
    (call.fn = "calculateConfidenceScore" /\ call.pc = "done") =>
        (50 <= call.result /\ call.result <= 95)

\* The lowest score has been returned: volatile market, hazardous cargo
\* over 2000 kg, a route that is not popular.
C2_Witness ==
    /\ call.fn = "calculateConfidenceScore" /\ call.pc = "done"
    /\ call.params.marketData.volatility > 30000
    /\ call.params.cargoType = "hazardous"
    /\ call.params.weight > 2000
    /\ call.params.marketData.routePopularity <= 70
    /\ call.result = 60

\* The sum of the surcharge fractions that apply to a call, in percent.
ApplicablePercent(params) ==
    8 + 2
    + (IF Str(params, "cargoType") = "hazardous" THEN 15 ELSE 0)
    + (IF Str(params, "cargoType") = "refrigerated" THEN 12 ELSE 0)
    + (IF params.weight > 1000 THEN 5 ELSE 0)
    + (IF Str(params, "serviceType") = "express" THEN 20 ELSE 0)

\* C10: surcharges are additive.  In every CostData returned, the surcharge
\* amount is a nearest-cent rounding of baseCost times the plain sum of the
\* applicable fractions (fuel 8% and security 2% always, hazardous 15% or
\* refrigerated 12% for that cargo type only, heavy cargo 5% only for
\* weight > 1000, express 20% only for serviceType express), each taken of
\* the same baseCost; so hazardous cargo over 1000 kg pays 30% of baseCost.
C10_SurchargesAdditive ==
    (call.fn = "getCostData" /\ call.pc = "done") =>
        LET exact == call.result.rawBaseCost * ApplicablePercent(call.params)
            got   == call.result.surcharges
        IN  /\ got % 100 = 0
            /\ got - exact <= 50
            /\ exact - got <= 50
            /\ (Str(call.params, "cargoType") = "hazardous" /\ call.params.weight > 1000
                 /\ Str(call.params, "serviceType") # "express")
                => (got - call.result.rawBaseCost * 30 <= 50
                    /\ call.result.rawBaseCost * 30 - got <= 50)

\* Hazardous cargo of 1001 kg, not express, has been priced: the surcharges
\* are 30% of the base cost; and at exactly 1000 kg they would be 25%.
C10_Witness ==
    /\ call.fn = "getCostData" /\ call.pc = "done"
    /\ Str(call.params, "cargoType") = "hazardous"
    /\ call.params.weight = 1001
    /\ Str(call.params, "serviceType") = "standard"
    /\ call.result.rawBaseCost % 10 = 0
    /\ call.result.surcharges = call.result.rawBaseCost * 30

\* C11, amended: for Shanghai-Los Angeles, 1000 kg, 5 cubic metres and
\* forwarder-001, every jitter in [0.9, 1.1] gives a baseCost within 10% of
\* the midpoint (10000 * 0.15 + 1 * 1200 + 5 * 80) * 0.95 = 2945, that is
\* between 2650.50 and 3239.50 (in u: 26 505 000 and 32 395 000).
C11_BaseCostWithinJitterBand ==
    (/\ call.fn = "getCostData" /\ call.pc = "done"
     /\ call.params.origin = "Shanghai" /\ call.params.destination = "Los Angeles"
     /\ call.params.weight = 1000
     /\ Has(call.params, "volume") /\ call.params.volume = 5
     /\ Str(call.params, "forwarderId") = "forwarder-001") =>
        (26505000 <= call.result.baseCost /\ call.result.baseCost <= 32395000)

\* The call of C11 has returned with the jitter at the top of its range: a
\* baseCost above 3200.
C11_Witness ==
    /\ call.fn = "getCostData" /\ call.pc = "done"
    /\ call.params.origin = "Shanghai" /\ call.params.destination = "Los Angeles"
    /\ call.params.weight = 1000
    /\ Has(call.params, "volume") /\ call.params.volume = 5
    /\ Str(call.params, "forwarderId") = "forwarder-001"
    /\ call.result.baseCost > 32000000

\* C11 as claimed: the same call returns a baseCost within 10% of 2707.5,
\* that is between 2436.75 and 2978.25.
C11_BaseCostAround2707 ==
    (/\ call.fn = "getCostData" /\ call.pc = "done"
     /\ call.params.origin = "Shanghai" /\ call.params.destination = "Los Angeles"
     /\ call.params.weight = 1000
     /\ Has(call.params, "volume") /\ call.params.volume = 5
     /\ Str(call.params, "forwarderId") = "forwarder-001") =>
        (24367500 <= call.result.baseCost /\ call.result.baseCost <= 29782500)

\* C12 as claimed: baseCost, surcharges and totalCost of every CostData
\* returned are whole numbers of cents.
C12_CostDataInWholeCents ==
    (call.fn = "getCostData" /\ call.pc = "done" /\ ~call.result.nan) =>
        /\ call.result.baseCost % 100 = 0
        /\ call.result.surcharges % 100 = 0
        /\ call.result.totalCost % 100 = 0

\* C14 as claimed: the surcharges returned are a nearest-cent rounding of
\* the returned, forwarder-scaled baseCost times the sum of the applicable
\* fractions.
C14_SurchargesOfScaledBaseCost ==
    (call.fn = "getCostData" /\ call.pc = "done" /\ ~call.result.nan) =>
        \E expected \in MulDivRounds(call.result.baseCost,
                                     ApplicablePercent(call.params), 100) :
            /\ call.result.surcharges - expected <= 100
            /\ expected - call.result.surcharges <= 100

\* cargoType and serviceType with every value outside the engine's tables
\* replaced by the neutral entry of the table.
NeutralParams(params) ==
    [k \in DOMAIN params \cup {"serviceType"} |->
        CASE k = "cargoType" ->
                 IF params.cargoType \in {"general", "hazardous", "refrigerated",
                                          "oversized", "fragile"}
                 THEN params.cargoType ELSE "general"
          [] k = "serviceType" ->
                 IF Str(params, "serviceType") \in {"standard", "express", "economy",
                                                    "premium"}
                 THEN params.serviceType ELSE "standard"
          [] OTHER -> params[k]]

\* C13 as claimed: a cargoType outside the cargo table and a serviceType
\* outside the service table leave the base prediction what it is with the
\* factor 1.0 in their place, a forwarderId outside the forwarder table
\* leaves baseCost unscaled, and none of them yields NaN or adds a cargo- or
\* service-specific surcharge.
C13_UnknownValuesNeutral ==
    /\ (call.fn = "calculateBasePrediction" /\ call.pc = "done") =>
          /\ ~call.result.nan
          /\ call.result.price \in calculateBasePrediction(NeutralParams(call.params))
    /\ (/\ call.fn = "getCostData" /\ call.pc = "done"
        /\ Has(call.params, "volume")
        /\ Str(call.params, "forwarderId")
              \notin {"forwarder-001", "forwarder-002", "forwarder-003", "default"}) =>
          /\ ~call.result.nan
          /\ call.result.baseCost = call.result.rawBaseCost * 100
          /\ (/\ Str(call.params, "cargoType") \notin {"hazardous", "refrigerated"}
              /\ Str(call.params, "serviceType") # "express") =>
                LET plain == call.result.rawBaseCost
                             * (10 + IF call.params.weight > 1000 THEN 5 ELSE 0)
                IN  /\ call.result.surcharges - plain <= 50
                    /\ plain - call.result.surcharges <= 50

C20_MarketDataInRange ==
    (call.fn = "getMarketData" /\ call.pc = "done") =>
        /\ call.result.competitivenessIndex \in 0 .. 100000
        /\ call.result.volatility \in 5000 .. 50000
        /\ call.result.routePopularity \in 0 .. 100
        /\ call.result.congestionLevel \in 0 .. 10000
        /\ call.result.dataQuality \in 500 .. 1000

\* A default-route answer in office hours with congestion above 0.7, where
\* volatility takes its congestion increment and the largest sample.
C20_Witness ==
    /\ call.fn = "getMarketData" /\ call.pc = "done"
    /\ call.params.origin = "Mumbai"
    /\ call.result.routePopularity = 60
    /\ call.result.congestionLevel > 7000
    /\ call.result.volatility = 34995

\* C30: the clamp of calculateConfidenceScore never takes effect.  Every
\* score returned lies between 0.60 and 0.85, strictly inside the clamp's
\* bounds 0.5 and 0.95, so it is the sum the function computed.
C30_ClampNeverBinds ==
    (call.fn = "calculateConfidenceScore" /\ call.pc = "done") =>
        (60 <= call.result /\ call.result <= 85)

\* The highest score has been returned: a calm market, general cargo of at
\* most 2000 kg, a popular route.
C30_Witness ==
    /\ call.fn = "calculateConfidenceScore" /\ call.pc = "done"
    /\ call.params.marketData.volatility <= 30000
    /\ call.params.cargoType = "general"
    /\ call.params.weight <= 2000
    /\ call.params.marketData.routePopularity > 70
    /\ call.result = 85

(***************************************************************************)
(* SpecQuote: one POST /api/predict-rate request                           *)
(***************************************************************************)

\* !x for a string field and for a numeric field: absent, '' and 0 are falsy.
FalsyStr(body, k) == ~Has(body, k) \/ body[k] = ""

FalsyNum(body, k) == ~Has(body, k) \/ body[k] = 0

\* The validation of predict-rate with the cargoType test left out.
PredictRateMissing_noCargoType(body) ==
    FalsyStr(body, "origin") \/ FalsyStr(body, "destination") \/ FalsyNum(body, "weight")

\* !origin || !destination || !cargoType || !weight
PredictRateMissing(body) ==
    FalsyStr(body, "origin") \/ FalsyStr(body, "destination")
    \/ FalsyStr(body, "cargoType") \/ FalsyNum(body, "weight")

QuoteFields ==
    {"origin", "destination", "cargoType", "weight", "volume", "serviceType",
     "customerId", "forwarderId"}

\* Request bodies: complete ones, ones without some or all of the optional
\* fields, and ones without a required field (or with a falsy one).
QuoteBodies ==
    { Restrict(p, DOMAIN p \ drop) :
        p \in [origin      : {"Shanghai", "Tokyo"},
               destination : {"Los Angeles"},
               cargoType   : {"general", "hazardous", "high-value"},
               weight      : {500, 2500},
               volume      : {5, 60},
               serviceType : {"standard", "economy"},
               customerId  : {"customer-001", "cu"},
               forwarderId : {"forwarder-001"}],
        drop \in {{}, {"volume"}, {"customerId"}, {"serviceType", "forwarderId"},
                  {"volume", "serviceType", "customerId", "forwarderId"}} }
    \cup
    { Restrict(p, DOMAIN p \ drop) :
        p \in [origin      : {"Shanghai", ""},
               destination : {"Los Angeles"},
               cargoType   : {"general"},
               weight      : {500, 0},
               volume      : {5},
               serviceType : {"standard"},
               customerId  : {"customer-001"},
               forwarderId : {"forwarder-001"}],
        drop \in {{"origin"}, {"destination"}, {"cargoType"}, {"weight"},
                  {"origin", "weight"}, QuoteFields} }

\* The draws of a getMarketData call in SpecQuote: night and office hours,
\* the sine at both extremes, each sample at both ends of [0, 1).
QuoteDraws == MarketDraws({3, 12}, {-1000, 1000}, {0, 999})

\* moment().month() when the prediction is made.
QuoteMonths == {0, 3, 7}

InitQuote ==
    /\ quote \in { [pc |-> "received", body |-> b, calls |-> <<>>] : b \in QuoteBodies }
    /\ call = NoCall
    /\ StoreIdle

\* A handler that starts both lookups at once (Promise.all) where the code
\* awaits the cost lookup before it calls the market-data lookup.
PredictRateStart_bothLookups ==
    /\ quote.pc = "received"
    /\ IF PredictRateMissing(quote.body)
       THEN quote' = [quote EXCEPT !.pc = "responded"]
                     @@ [status |-> 400,
                         error  |-> "Missing required fields: origin, destination, cargoType, weight"]
       ELSE quote' = [quote EXCEPT !.pc = "awaitCost",
                                   !.calls = <<"getCostData", "getMarketData">>]
    /\ UNCHANGED <<call, dataFile, analyticsFile, reqs>>

\* The handler up to its first await: 400 for a missing field, else the
\* call of rmsConnector.getCostData, which waits for its simulated delay.
PredictRateStart ==
    /\ quote.pc = "received"
    /\ IF PredictRateMissing(quote.body)
       THEN quote' = [quote EXCEPT !.pc = "responded"]
                     @@ [status |-> 400,
                         error  |-> "Missing required fields: origin, destination, cargoType, weight"]
       ELSE quote' = [quote EXCEPT !.pc = "awaitCost", !.calls = <<"getCostData">>]
    /\ UNCHANGED <<call, dataFile, analyticsFile, reqs>>

\* Step 1 returns; step 2, lciConnector.getMarketData, is called and waits.
PredictRateCostReturned ==
    /\ quote.pc = "awaitCost"
    /\ \E rnd \in {0, 999} : \E costData \in getCostData(quote.body, rnd) :
          quote' = [quote EXCEPT !.pc = "awaitMarket",
                                 !.calls = Append(@, "getMarketData")]
                   @@ [costData |-> costData]
    /\ UNCHANGED <<call, dataFile, analyticsFile, reqs>>

\* Step 2 returns; step 3, freightIQEngine.predictOptimalPrice, is called
\* and waits for its processing delay.
PredictRateMarketReturned ==
    /\ quote.pc = "awaitMarket"
    /\ \E d \in QuoteDraws : \E marketData \in getMarketData(quote.body, d) :
          quote' = [quote EXCEPT !.pc = "awaitPrediction",
                                 !.calls = Append(@, "predictOptimalPrice")]
                   @@ [marketData |-> marketData]
    /\ UNCHANGED <<call, dataFile, analyticsFile, reqs>>

\* A step 4 that keeps the quote it answers with: the prediction is pushed
\* onto the event log before the response is written.
PredictRateRespond_stored ==
    /\ quote.pc = "awaitPrediction"
    /\ \E month \in QuoteMonths :
       \E prediction \in predictOptimalPrice(
            quote.body @@ [costData |-> quote.costData, marketData |-> quote.marketData],
            month) :
          /\ ~prediction.throws
          /\ quote' = [quote EXCEPT !.pc = "responded"]
                      @@ [status |-> 200, predictedPrice |-> prediction.price]
          /\ dataFile' = [dataFile EXCEPT
                            !.bookings = Append(@, [predictedPrice |-> prediction.price])]
    /\ UNCHANGED <<call, analyticsFile, reqs>>

\* Step 3 returns or throws; step 4: res.json(...) with status 200, or the
\* catch block's 500 with the error's message.
PredictRateRespond ==
    /\ quote.pc = "awaitPrediction"
    /\ \E month \in QuoteMonths :
       \E prediction \in predictOptimalPrice(
            quote.body @@ [costData |-> quote.costData, marketData |-> quote.marketData],
            month) :
          quote' = [quote EXCEPT !.pc = "responded"]
                   @@ (IF prediction.throws
                       THEN [status  |-> 500,
                             error   |-> "Internal server error",
                             message |-> prediction.message]
                       ELSE [status          |-> 200,
                             nan             |-> prediction.nan,
                             predictedPrice  |-> prediction.price,
                             confidenceScore |-> prediction.confidence,
                             confidenceBand  |-> prediction.confidenceBand,
                             marginRange     |-> prediction.marginRange,
                             breakdown       |->
                                 [baseCost         |-> quote.costData.baseCost,
                                  surcharges       |-> quote.costData.surcharges,
                                  marketAdjustment |-> quote.marketData.adjustment,
                                  mlPrediction     |-> prediction.mlAdjustment]])
    /\ UNCHANGED <<call, dataFile, analyticsFile, reqs>>

NextQuote ==
    \/ PredictRateStart
    \/ PredictRateCostReturned
    \/ PredictRateMarketReturned
    \/ PredictRateRespond

SpecQuote == InitQuote /\ [][NextQuote]_vars

\* The request bodies of the runs in which every simulated delay elapses:
\* complete ones, one without customerId (predictOptimalPrice throws) and
\* one without cargoType (rejected).
LiveBodies ==
    { b \in QuoteBodies :
        /\ Str(b, "origin") = "Shanghai" /\ Str(b, "cargoType") \in {"general", Undefined}
        /\ Has(b, "weight") /\ b.weight = 500
        /\ Has(b, "volume") /\ b.volume = 5
        /\ Has(b, "serviceType") /\ Has(b, "forwarderId") }

InitQuoteLive ==
    /\ quote \in { [pc |-> "received", body |-> b, calls |-> <<>>] : b \in LiveBodies }
    /\ call = NoCall
    /\ StoreIdle

\* setTimeout fires for each simulated delay and the event loop runs the
\* continuation that waits for it.  PredictRateRespond is enabled exactly
\* when the request waits for the prediction and every such step ends the
\* wait, so weak fairness of it says that the request does not wait for the
\* prediction forever; it is stated in that form.
SpecQuoteLive ==
    /\ InitQuoteLive /\ [][NextQuote]_vars
    /\ WF_vars(PredictRateStart)
    /\ WF_vars(PredictRateCostReturned)
    /\ WF_vars(PredictRateMarketReturned)
    /\ []<>(quote.pc # "awaitPrediction")

\* A valid QuoteRequest: the required fields present, weight > 0, volume a
\* number >= 0.
ValidQuoteRequest(body) ==
    /\ ~PredictRateMissing(body)
    /\ body.weight > 0
    /\ Has(body, "volume") /\ body.volume >= 0

C4_MissingFieldRejected ==
    (quote.pc # "idle" /\ \E k \in {"origin", "destination", "cargoType", "weight"} :
                              ~Has(quote.body, k)) =>
        /\ quote.calls = <<>>
        /\ quote.pc \in {"received", "responded"}
        /\ quote.pc = "responded" => (quote.status = 400 /\ quote.error # "")
        /\ StoreIdle

\* A request without cargoType (and nothing else missing) has been answered.
C4_Witness ==
    /\ quote.pc = "responded"
    /\ DOMAIN quote.body = QuoteFields \ {"cargoType"}
    /\ quote.status = 400

\* C8 as claimed: every request that passes the required-field validation
\* goes through the three pipeline steps and is answered 200.
C8_ValidatedAlways200 ==
    (quote.pc = "responded" /\ ~PredictRateMissing(quote.body)) =>
        /\ quote.status = 200
        /\ quote.calls = <<"getCostData", "getMarketData", "predictOptimalPrice">>

\* C21 as claimed: every 200 response to a valid QuoteRequest has
\* marginRange.minMargin <= marginRange.absolute <= marginRange.maxMargin.
C21_MarginWindowOrdered ==
    (quote.pc = "responded" /\ quote.status = 200 /\ ValidQuoteRequest(quote.body)) =>
        /\ quote.marginRange.minMargin <= quote.marginRange.absolute
        /\ quote.marginRange.absolute <= quote.marginRange.maxMargin

\* C22: no step of a predict-rate request changes the event log or the
\* counters, whether the request ends in 200, 400 or 500; the prediction it
\* answers with goes to the caller and into neither document.
C22_PredictRateWritesNothing ==
    [][quote' # quote => (dataFile' = dataFile /\ analyticsFile' = analyticsFile)]_vars

\* A request has gone through its three steps and been answered 200 with a
\* price, and both documents are as they were before it.
C22_Witness ==
    /\ quote.pc = "responded" /\ quote.status = 200
    /\ quote.calls = <<"getCostData", "getMarketData", "predictOptimalPrice">>
    /\ quote.predictedPrice > 0
    /\ StoreIdle

\* C23: a request that passes validation calls the cost lookup first, the
\* market-data lookup only once the cost data has returned, the prediction
\* only once the market data has returned, and is answered only after the
\* prediction; once answered it is never answered again; and if every
\* simulated delay elapses, each request is eventually answered.
C23_StepsInOrderThenOneResponse ==
    /\ [](~PredictRateMissing(quote.body) =>
            /\ quote.pc = "received" => quote.calls = <<>>
            /\ quote.pc = "awaitCost" => quote.calls = <<"getCostData">>
            /\ quote.pc = "awaitMarket" =>
                 /\ quote.calls = <<"getCostData", "getMarketData">>
                 /\ Has(quote, "costData")
            /\ quote.pc = "awaitPrediction" =>
                 /\ quote.calls = <<"getCostData", "getMarketData", "predictOptimalPrice">>
                 /\ Has(quote, "costData") /\ Has(quote, "marketData")
            /\ quote.pc = "responded" =>
                 /\ quote.calls = <<"getCostData", "getMarketData", "predictOptimalPrice">>
                 /\ quote.status \in {200, 500})
    /\ [][quote.pc = "responded" => quote' = quote]_vars
    /\ (quote.pc = "received") ~> (quote.pc = "responded")

\* A validated request has been answered 500 after all three steps ran in
\* order: the prediction threw once its processing delay had elapsed.
C23_Witness ==
    /\ quote.pc = "responded" /\ quote.status = 500
    /\ ~PredictRateMissing(quote.body)
    /\ quote.calls = <<"getCostData", "getMarketData", "predictOptimalPrice">>
    /\ Has(quote, "costData") /\ Has(quote, "marketData")

\* C25 as claimed: in every 200 response the confidence band's percentage,
\* round((1 - confidence) * 0.3 * 100), is between 5 and 15.
C25_BandPercentage5To15 ==
    (quote.pc = "responded" /\ quote.status = 200 /\ ~quote.nan) =>
        /\ 5 <= quote.confidenceBand.percentage
        /\ quote.confidenceBand.percentage <= 15

(***************************************************************************)
(* TrainingStore                                                           *)
(***************************************************************************)

RECURSIVE GCD(_, _)
GCD(a, b) == IF b = 0 THEN a ELSE GCD(b, a % b)

\* analytics.totalRequests > 0 ? (totalBookings / totalRequests) * 100 : 0,
\* as the fraction <<numerator, denominator>> in lowest terms.
winRateOf(totalBookings, totalRequests) ==
    IF totalRequests > 0
    THEN LET g == GCD(totalBookings * 100, totalRequests)
         IN  <<(totalBookings * 100) \div g, totalRequests \div g>>
    ELSE <<0, 1>>

\* What loadTrainingData and loadAnalytics return when the read or the
\* parse throws (moment-stamped lastUpdated and averageConfidence, which
\* nothing reads, are left out of both documents).
EmptyTrainingData == [bookings |-> <<>>, declines |-> <<>>]

ZeroAnalytics ==
    [totalRequests |-> 0, totalBookings |-> 0, totalDeclines |-> 0, winRate |-> <<0, 1>>]

\* A document on disk: ok says that it holds well-formed JSON.
TrainingFile(data) == [ok |-> TRUE] @@ data

AnalyticsFile(analytics) == [ok |-> TRUE] @@ analytics

\* What a write left behind when it failed after truncating the file.
Malformed(file) == [file EXCEPT !.ok = FALSE]

\* loadTrainingData: readFails says that fs.readFile rejected; JSON.parse
\* throws on a malformed document.  Either way the catch block answers
\* with an empty document.
loadTrainingData(file, readFails) ==
    IF readFails \/ ~file.ok THEN EmptyTrainingData
    ELSE [bookings |-> file.bookings, declines |-> file.declines]

\* loadAnalytics, with the same catch block and zeroed counters.
loadAnalytics(file, readFails) ==
    IF readFails \/ ~file.ok THEN ZeroAnalytics
    ELSE [totalRequests |-> file.totalRequests, totalBookings |-> file.totalBookings,
          totalDeclines |-> file.totalDeclines, winRate |-> file.winRate]

\* The record logBooking ('booking') and logDecline ('decline') build:
\* {id: this.generateId(), ...data, type, loggedAt: moment().toISOString()}.
\* id stands for the generated id and "now" for the store's timestamp.  The
\* spread comes after id and before type and loggedAt: a field of data
\* replaces what stands before it and is replaced by what stands after it.
TrainingRecord(id, data, type) ==
    [k \in DOMAIN data \cup {"id", "type", "loggedAt"} |->
        IF k = "type" THEN type
        ELSE IF k = "loggedAt" THEN "now"
        ELSE IF k \in DOMAIN data THEN data[k]
        ELSE id]

\* pushRecord with unshift in the place of push: the record goes to the
\* front of its array.
pushRecord_unshift(data, record) ==
    IF record.type = "booking"
    THEN [data EXCEPT !.bookings = <<record>> \o @]
    ELSE [data EXCEPT !.declines = <<record>> \o @]

\* data.bookings.push(booking) / data.declines.push(decline)
pushRecord(data, record) ==
    IF record.type = "booking"
    THEN [data EXCEPT !.bookings = Append(@, record)]
    ELSE [data EXCEPT !.declines = Append(@, record)]

\* updateAnalytics without its totalRequests += 1.
updatedAnalytics_requestsNotCounted(analytics, eventType) ==
    LET totalBookings == analytics.totalBookings + (IF eventType = "booking" THEN 1 ELSE 0)
        totalDeclines == analytics.totalDeclines + (IF eventType = "decline" THEN 1 ELSE 0)
    IN  [totalRequests |-> analytics.totalRequests, totalBookings |-> totalBookings,
         totalDeclines |-> totalDeclines,
         winRate       |-> winRateOf(totalBookings, analytics.totalRequests)]

\* The counters updateAnalytics saves for an event of eventType.
updatedAnalytics(analytics, eventType) ==
    LET totalRequests == analytics.totalRequests + 1
        totalBookings == analytics.totalBookings + (IF eventType = "booking" THEN 1 ELSE 0)
        totalDeclines == analytics.totalDeclines + (IF eventType = "decline" THEN 1 ELSE 0)
    IN  [totalRequests |-> totalRequests, totalBookings |-> totalBookings,
         totalDeclines |-> totalDeclines,
         winRate       |-> winRateOf(totalBookings, totalRequests)]

\* getAnalytics with a call of saveAnalytics that counts the view as a
\* request.
analyticsFileAfterGetAnalytics_counted(file, analytics) ==
    AnalyticsFile([analytics EXCEPT !.totalRequests = @ + 1])

\* The counter document after getAnalytics has run on the counters it
\* loaded: getAnalytics calls neither saveAnalytics nor saveTrainingData.
analyticsFileAfterGetAnalytics(file, analytics) == file

\* What getAnalytics returns: the loaded counters and the 30-day window
\* (every event of a run is younger than 30 days).  The Math.random() block
\* (averageConfidence, modelPerformance) and lastUpdated are left out.
getAnalytics(analytics, trainingData) ==
    LET recentBookings == Len(trainingData.bookings)
        recentDeclines == Len(trainingData.declines)
    IN  analytics @@
        [recentWinRate       |-> winRateOf(recentBookings, recentBookings + recentDeclines),
         recentBookings      |-> recentBookings,
         recentDeclines      |-> recentDeclines,
         totalRecentRequests |-> recentBookings + recentDeclines]

(***************************************************************************)
(* Spec: confirm-booking, decline-quote and analytics requests against     *)
(* the store, interleaved at their awaits.  SpecFault: the same with file  *)
(* reads and writes that fail.                                             *)
(***************************************************************************)

\* The number of requests a run issues.
MaxRequests == 3

MaxInFlight == 2

RECURSIVE InFlight(_)
InFlight(rs) ==
    IF rs = <<>> THEN 0
    ELSE InFlight(Tail(rs)) + (IF Head(rs).pc = "responded" THEN 0 ELSE 1)

\* The number of file operations that fail in a run of SpecFault.
MaxFaults == 1

\* !requestId || !bookingId || !finalPrice
ConfirmBookingMissing(body) ==
    FalsyStr(body, "requestId") \/ FalsyStr(body, "bookingId") \/ FalsyNum(body, "finalPrice")

\* !requestId
DeclineQuoteMissing(body) == FalsyStr(body, "requestId")

\* The bodies of confirm-booking: the client's (finalPrice in cents), one
\* with each required field left out, and one with a finalPrice of 0.
ConfirmBody ==
    [requestId |-> "q1", bookingId |-> "b1", customerId |-> "customer-001",
     forwarderId |-> "forwarder-001", finalPrice |-> 250000]

ConfirmBodies ==
    { Restrict(ConfirmBody, DOMAIN ConfirmBody \ drop) :
        drop \in {{}, {"requestId"}, {"bookingId"}, {"finalPrice"}} }
    \cup {[ConfirmBody EXCEPT !.finalPrice = 0]}

\* The bodies of decline-quote: the client's, one without a reason and one
\* without a requestId.
DeclineBody ==
    [requestId |-> "q1", reason |-> "Price too high", customerId |-> "customer-001",
     forwarderId |-> "forwarder-001"]

DeclineBodies ==
    { Restrict(DeclineBody, DOMAIN DeclineBody \ drop) :
        drop \in {{}, {"requestId"}, {"reason"}} }

\* A request as it arrives; data and analytics are the handler's local
\* copies of the documents, met the I/O errors its calls ran into, seen and
\* done the count of log steps taken when it arrived and when it responded,
\* overlapped whether another request was in flight when it arrived.
NewRequest(kind, body, seen) ==
    [kind |-> kind, body |-> body, pc |-> "received", status |-> 0, error |-> "",
     message |-> "", data |-> EmptyTrainingData, analytics |-> ZeroAnalytics,
     result |-> ZeroAnalytics, met |-> <<>>, seen |-> seen, done |-> 0,
     overlapped |-> InFlight(reqs) > 0]

EventType(kind) == IF kind = "confirm" THEN "booking" ELSE "decline"

\* The steps the log calls have taken so far: one per atomic section run.
RECURSIVE LogSteps(_)
LogSteps(rs) ==
    IF rs = <<>> THEN 0
    ELSE LogSteps(Tail(rs))
         + (IF Head(rs).kind = "analytics" THEN 0
            ELSE CASE Head(rs).pc = "readData" -> 1
                   [] Head(rs).pc = "writeData" -> 2
                   [] Head(rs).pc = "readAnalytics" -> 3
                   [] Head(rs).pc = "writeAnalytics" -> 4
                   [] Head(rs).pc = "responded" /\ Head(rs).status = 200 -> 5
                   [] Head(rs).pc = "responded" /\ Head(rs).status = 500 -> 3
                   [] OTHER -> 0)

RECURSIVE FaultsMet(_)
FaultsMet(rs) == IF rs = <<>> THEN 0 ELSE Len(Head(rs).met) + FaultsMet(Tail(rs))

Respond(r, status, error, message) ==
    [r EXCEPT !.pc = "responded", !.status = status, !.error = error,
              !.message = message, !.done = LogSteps(reqs)]

InitStore ==
    /\ StoreIdle
    /\ call = NoCall
    /\ quote = NoQuote

\* POST /api/confirm-booking up to its first await: 400, or the call of
\* trainingStore.logBooking, whose loadTrainingData starts fs.readFile.
ConfirmBooking(body) ==
    /\ Len(reqs) < MaxRequests
    /\ InFlight(reqs) < MaxInFlight
    /\ LET r == NewRequest("confirm", body, LogSteps(reqs))
       IN  reqs' = Append(reqs,
                IF ConfirmBookingMissing(body)
                THEN Respond(r, 400, "Missing required fields: requestId, bookingId, finalPrice", "")
                ELSE [r EXCEPT !.pc = "readData"])
    /\ UNCHANGED <<call, quote, dataFile, analyticsFile>>

\* POST /api/decline-quote up to its first await.
DeclineQuote(body) ==
    /\ Len(reqs) < MaxRequests
    /\ InFlight(reqs) < MaxInFlight
    /\ LET r == NewRequest("decline", body, LogSteps(reqs))
       IN  reqs' = Append(reqs,
                IF DeclineQuoteMissing(body)
                THEN Respond(r, 400, "Missing required field: requestId", "")
                ELSE [r EXCEPT !.pc = "readData"])
    /\ UNCHANGED <<call, quote, dataFile, analyticsFile>>

\* GET /api/analytics up to its first await: getAnalytics calls
\* loadAnalytics.
GetAnalytics ==
    /\ Len(reqs) < MaxRequests
    /\ InFlight(reqs) < MaxInFlight
    /\ reqs' = Append(reqs, [NewRequest("analytics", <<>>, LogSteps(reqs))
                             EXCEPT !.pc = "readAnalytics"])
    /\ UNCHANGED <<call, quote, dataFile, analyticsFile>>

\* logBooking / logDecline: loadTrainingData returns; the record is pushed
\* onto the copy and saveTrainingData starts fs.writeFile.
LogLoadTrainingData(i, readFails) ==
    /\ reqs[i].kind # "analytics" /\ reqs[i].pc = "readData"
    /\ reqs' = [reqs EXCEPT ![i] =
          [@ EXCEPT !.pc = "writeData",
                    !.data = pushRecord(loadTrainingData(dataFile, readFails),
                                        TrainingRecord(i, reqs[i].body, EventType(reqs[i].kind))),
                    !.met = IF readFails \/ ~dataFile.ok
                            THEN Append(@, "read training-data.json") ELSE @]]
    /\ UNCHANGED <<call, quote, dataFile, analyticsFile>>

\* saveTrainingData's write lands; updateAnalytics is called and its
\* loadAnalytics starts fs.readFile.
LogSaveTrainingData(i) ==
    /\ reqs[i].kind # "analytics" /\ reqs[i].pc = "writeData"
    /\ dataFile' = TrainingFile(reqs[i].data)
    /\ reqs' = [reqs EXCEPT ![i] = [@ EXCEPT !.pc = "readAnalytics"]]
    /\ UNCHANGED <<call, quote, analyticsFile>>

\* saveTrainingData's write fails, leaving the document as it was or
\* truncated: saveTrainingData and logBooking/logDecline rethrow, and the
\* route's catch block answers 500 with the error's message.
LogSaveTrainingDataFails(i) ==
    /\ reqs[i].kind # "analytics" /\ reqs[i].pc = "writeData"
    /\ dataFile' \in {dataFile, Malformed(dataFile)}
    /\ reqs' = [reqs EXCEPT ![i] =
          Respond([@ EXCEPT !.met = Append(@, "write training-data.json")],
                  500, "Internal server error", "write training-data.json")]
    /\ UNCHANGED <<call, quote, analyticsFile>>

\* updateAnalytics: loadAnalytics returns; the counters are bumped on the
\* copy and saveAnalytics starts fs.writeFile.
LogLoadAnalytics(i, readFails) ==
    /\ reqs[i].kind # "analytics" /\ reqs[i].pc = "readAnalytics"
    /\ reqs' = [reqs EXCEPT ![i] =
          [@ EXCEPT !.pc = "writeAnalytics",
                    !.analytics = updatedAnalytics(loadAnalytics(analyticsFile, readFails),
                                                   EventType(reqs[i].kind)),
                    !.met = IF readFails \/ ~analyticsFile.ok
                            THEN Append(@, "read analytics.json") ELSE @]]
    /\ UNCHANGED <<call, quote, dataFile, analyticsFile>>

\* saveAnalytics's write lands; the log call returns {success: true} and the
\* route answers 200.
LogSaveAnalytics(i) ==
    /\ reqs[i].kind # "analytics" /\ reqs[i].pc = "writeAnalytics"
    /\ analyticsFile' = AnalyticsFile(reqs[i].analytics)
    /\ reqs' = [reqs EXCEPT ![i] = Respond(@, 200, "", "")]
    /\ UNCHANGED <<call, quote, dataFile>>

\* saveAnalytics's write fails: updateAnalytics's catch block logs the error
\* and returns, so the log call still succeeds and the route answers 200.
LogSaveAnalyticsFails(i) ==
    /\ reqs[i].kind # "analytics" /\ reqs[i].pc = "writeAnalytics"
    /\ analyticsFile' \in {analyticsFile, Malformed(analyticsFile)}
    /\ reqs' = [reqs EXCEPT ![i] =
          Respond([@ EXCEPT !.met = Append(@, "write analytics.json")], 200, "", "")]
    /\ UNCHANGED <<call, quote, dataFile>>

\* getAnalytics: loadAnalytics returns and loadTrainingData starts
\* fs.readFile.
AnalyticsLoadAnalytics(i, readFails) ==
    /\ reqs[i].kind = "analytics" /\ reqs[i].pc = "readAnalytics"
    /\ reqs' = [reqs EXCEPT ![i] =
          [@ EXCEPT !.pc = "readData",
                    !.analytics = loadAnalytics(analyticsFile, readFails),
                    !.met = IF readFails \/ ~analyticsFile.ok
                            THEN Append(@, "read analytics.json") ELSE @]]
    /\ UNCHANGED <<call, quote, dataFile, analyticsFile>>

\* getAnalytics: loadTrainingData returns, the result is built and the
\* route answers 200 with it.
AnalyticsLoadTrainingData(i, readFails) ==
    /\ reqs[i].kind = "analytics" /\ reqs[i].pc = "readData"
    /\ reqs' = [reqs EXCEPT ![i] =
          Respond([@ EXCEPT !.data = loadTrainingData(dataFile, readFails),
                            !.result = getAnalytics(reqs[i].analytics,
                                           loadTrainingData(dataFile, readFails)),
                            !.met = IF readFails \/ ~dataFile.ok
                                    THEN Append(@, "read training-data.json") ELSE @],
                  200, "", "")]
    /\ analyticsFile' = analyticsFileAfterGetAnalytics(analyticsFile, reqs[i].analytics)
    /\ UNCHANGED <<call, quote, dataFile>>

Next ==
    \/ \E body \in ConfirmBodies : ConfirmBooking(body)
    \/ \E body \in DeclineBodies : DeclineQuote(body)
    \/ GetAnalytics
    \/ \E i \in DOMAIN reqs :
          \/ LogLoadTrainingData(i, FALSE)
          \/ LogSaveTrainingData(i)
          \/ LogLoadAnalytics(i, FALSE)
          \/ LogSaveAnalytics(i)
          \/ AnalyticsLoadAnalytics(i, FALSE)
          \/ AnalyticsLoadTrainingData(i, FALSE)

Spec == InitStore /\ [][Next]_vars

NextFault ==
    \/ Next
    \/ \E i \in DOMAIN reqs :
          /\ FaultsMet(reqs) < MaxFaults
          /\ \/ LogLoadTrainingData(i, TRUE)
             \/ LogSaveTrainingDataFails(i)
             \/ LogLoadAnalytics(i, TRUE)
             \/ LogSaveAnalyticsFails(i)
             \/ AnalyticsLoadAnalytics(i, TRUE)
             \/ AnalyticsLoadTrainingData(i, TRUE)

SpecFault == InitStore /\ [][NextFault]_vars

(***************************************************************************)
(* Claims about the store                                                  *)
(***************************************************************************)

AllResponded == \A i \in DOMAIN reqs : reqs[i].pc = "responded"

Answered(kind, status) ==
    { i \in DOMAIN reqs : reqs[i].kind = kind /\ reqs[i].pc = "responded"
                          /\ reqs[i].status = status }

\* The events a document on disk holds: none when it is not well-formed.
StoredBookings(file) == IF file.ok THEN file.bookings ELSE <<>>

StoredDeclines(file) == IF file.ok THEN file.declines ELSE <<>>

IsPrefix(s, t) == Len(s) <= Len(t) /\ \A k \in 1..Len(s) : t[k] = s[k]

\* C1 as claimed: once every call has responded, the bookings array has
\* grown by exactly the number of confirm-booking calls that were logged,
\* also when calls overlapped.
C1_NoBookingDropped ==
    AllResponded =>
        Len(StoredBookings(dataFile)) = Cardinality(Answered("confirm", 200))

C6_EventsAppendOnly ==
    [][(InFlight(reqs) <= 1 /\ InFlight(reqs') <= 1) =>
          /\ IsPrefix(StoredBookings(dataFile), StoredBookings(dataFile'))
          /\ IsPrefix(StoredDeclines(dataFile), StoredDeclines(dataFile'))]_vars

\* C7 as claimed: a request during which a read, a parse or a write failed
\* is answered 500 with the generic error and the failure's message, never
\* 200.
C7_FailureAnswered500 ==
    \A i \in DOMAIN reqs :
        (reqs[i].pc = "responded" /\ reqs[i].met # <<>>) =>
            /\ reqs[i].status = 500
            /\ reqs[i].error = "Internal server error"
            /\ reqs[i].message = reqs[i].met[1]

\* C9 as claimed: confirm-booking without requestId, bookingId or finalPrice
\* and decline-quote without requestId are answered 400 and leave no record;
\* every other confirm-booking and decline-quote request is logged and
\* answered 200.
C9_RequiredFieldsDecideLogging ==
    \A i \in DOMAIN reqs :
        (reqs[i].pc = "responded" /\ reqs[i].kind # "analytics") =>
            LET required == IF reqs[i].kind = "confirm"
                            THEN {"requestId", "bookingId", "finalPrice"}
                            ELSE {"requestId"}
            IN  IF \E k \in required : ~Has(reqs[i].body, k)
                THEN /\ reqs[i].status = 400
                     /\ reqs[i].error # ""
                     /\ \A k \in DOMAIN dataFile.bookings : dataFile.bookings[k].id # i
                     /\ \A k \in DOMAIN dataFile.declines : dataFile.declines[k].id # i
                ELSE reqs[i].status = 200



\* No request arrived while another was in flight.
NoOverlap == \A i \in DOMAIN reqs : ~reqs[i].overlapped

\* The log requests of a kind whose record has been written, in the order
\* of their calls.
Stored(kind) ==
    SelectSeq([i \in DOMAIN reqs |-> i],
              LAMBDA i : /\ reqs[i].kind = kind
                         /\ \/ reqs[i].pc \in {"readAnalytics", "writeAnalytics"}
                            \/ reqs[i].pc = "responded" /\ reqs[i].status = 200)

\* C17 as claimed: once non-overlapping log calls have all returned success,
\* totalBookings is the number of stored bookings, totalDeclines the number
\* of stored declines and winRate is 100 * totalBookings / totalRequests,
\* whatever happened to the reads and writes of the calls.
C17_CountersMatchEvents ==
    (/\ NoOverlap /\ InFlight(reqs) = 0
     /\ \A i \in DOMAIN reqs : reqs[i].status # 500) =>
        /\ dataFile.ok /\ analyticsFile.ok
        /\ analyticsFile.totalBookings = Len(dataFile.bookings)
        /\ analyticsFile.totalDeclines = Len(dataFile.declines)
        /\ analyticsFile.totalBookings = Cardinality(Answered("confirm", 200))
        /\ analyticsFile.totalDeclines = Cardinality(Answered("decline", 200))
        /\ analyticsFile.totalRequests
              = analyticsFile.totalBookings + analyticsFile.totalDeclines
        /\ analyticsFile.winRate
              = winRateOf(analyticsFile.totalBookings, analyticsFile.totalRequests)

C27_CountersAddUp ==
    /\ analyticsFile.ok =>
          /\ analyticsFile.totalRequests
                = analyticsFile.totalBookings + analyticsFile.totalDeclines
          /\ analyticsFile.totalRequests >= 0
          /\ analyticsFile.totalBookings >= 0
          /\ analyticsFile.totalDeclines >= 0
    /\ \A i \in DOMAIN reqs :
          (reqs[i].kind # "analytics" /\ reqs[i].pc = "writeAnalytics") =>
              /\ reqs[i].analytics.totalRequests
                    = reqs[i].analytics.totalBookings + reqs[i].analytics.totalDeclines
              /\ reqs[i].analytics.totalBookings >= 0
              /\ reqs[i].analytics.totalDeclines >= 0

\* Two events are stored but the counters say one: a read of analytics.json
\* failed in a log call, which saved counters restarted from zero.
C27_Witness ==
    /\ InFlight(reqs) = 0
    /\ dataFile.ok /\ Len(dataFile.bookings) + Len(dataFile.declines) = 2
    /\ analyticsFile.ok /\ analyticsFile.totalRequests = 1
    /\ \E i \in DOMAIN reqs : reqs[i].met = <<"read analytics.json">>


(***************************************************************************)
(* logBooking and logDecline called directly, one call after the other,   *)
(* with event objects that carry fields of the caller's own choosing.     *)
(***************************************************************************)

MaxLogCalls == 2

LogFns == {"logBooking", "logDecline"}

LogType(fn) == IF fn = "logBooking" THEN "booking" ELSE "decline"

\* What a caller may put into the fields the store sets itself: an id of
\* its own (the store's ids are 1, 2, ...), the type of the other array and
\* an earlier timestamp.
CallerFields(fn) ==
    [id |-> 0, type |-> IF fn = "logBooking" THEN "decline" ELSE "booking",
     loggedAt |-> "then"]

\* The event objects passed to fn: the fields the routes pass, with any of
\* the caller's own id, type and loggedAt.
LogParams(fn) ==
    { Restrict(CallerFields(fn), S) @@ (IF fn = "logBooking" THEN ConfirmBody ELSE DeclineBody)
      : S \in SUBSET {"id", "type", "loggedAt"} }

\* The n-th call; generated is the id generateId() returns in this call.
LogCalls(n) ==
    UNION { { [fn |-> fn, pc |-> "called", params |-> p, generated |-> n,
               result |-> [success |-> FALSE, id |-> 0]] : p \in LogParams(fn) }
            : fn \in LogFns }

InitLog ==
    /\ call \in LogCalls(1)
    /\ quote = NoQuote
    /\ StoreIdle

\* logBooking from the load to the return, with no other call running and
\* every file operation succeeding.
LogBookingReturn ==
    /\ call.fn = "logBooking" /\ call.pc = "called"
    /\ LET data    == loadTrainingData(dataFile, FALSE)
           booking == TrainingRecord(call.generated, call.params, "booking")
       IN  /\ dataFile' = TrainingFile(pushRecord(data, booking))
           /\ analyticsFile'
                = AnalyticsFile(updatedAnalytics(loadAnalytics(analyticsFile, FALSE),
                                                 "booking"))
           /\ call' = [call EXCEPT !.pc = "done",
                                   !.result = [success |-> TRUE, id |-> booking.id]]
    /\ UNCHANGED <<quote, reqs>>

\* logDecline, likewise.
LogDeclineReturn ==
    /\ call.fn = "logDecline" /\ call.pc = "called"
    /\ LET data    == loadTrainingData(dataFile, FALSE)
           decline == TrainingRecord(call.generated, call.params, "decline")
       IN  /\ dataFile' = TrainingFile(pushRecord(data, decline))
           /\ analyticsFile'
                = AnalyticsFile(updatedAnalytics(loadAnalytics(analyticsFile, FALSE),
                                                 "decline"))
           /\ call' = [call EXCEPT !.pc = "done",
                                   !.result = [success |-> TRUE, id |-> decline.id]]
    /\ UNCHANGED <<quote, reqs>>

\* The caller makes its next call once the last one has returned.
LogNextCall ==
    /\ call.pc = "done" /\ call.generated < MaxLogCalls
    /\ call' \in LogCalls(call.generated + 1)
    /\ UNCHANGED <<quote, dataFile, analyticsFile, reqs>>

NextLog ==
    \/ LogBookingReturn
    \/ LogDeclineReturn
    \/ LogNextCall

SpecLog == InitLog /\ [][NextLog]_vars

\* The event the call that has just returned stored.
LastStored ==
    IF call.fn = "logBooking"
    THEN dataFile.bookings[Len(dataFile.bookings)]
    ELSE dataFile.declines[Len(dataFile.declines)]

\* C19 as claimed: whatever fields the event object carries, the stored
\* event has the id the store generated, which is also the id returned, the
\* type of the array it is in and the store's timestamp.
C19_StoreFieldsNotFromCaller ==
    call.pc = "done" =>
        /\ LastStored.id = call.generated
        /\ call.result.id = call.generated
        /\ LastStored.type = LogType(call.fn)
        /\ LastStored.loggedAt = "now"
        /\ \A k \in DOMAIN dataFile.bookings : dataFile.bookings[k].type = "booking"
        /\ \A k \in DOMAIN dataFile.declines : dataFile.declines[k].type = "decline"

(***************************************************************************)
(* The client: App (handleQuoteSubmit, handleBookingConfirm,               *)
(* handleQuoteDecline) and QuoteResult (its two buttons and its banner).   *)
(***************************************************************************)

\* null, for a piece of React state that holds a string otherwise.
Null == "<null>"

\* QuoteResult's message when it is null.
NoMessage == [type |-> "none", text |-> ""]

\* The requestIds predict-rate puts into its 200 responses (uuidv4()).
IssuedRequestIds == {"q1", "q2"}

\* No response received yet.
NoAnswer == [ok |-> TRUE, status |-> 0, error |-> "", requestId |-> ""]

\* What fetch resolves to for each route: ok is response.ok, error the
\* error field of the payload, requestId the one of a predict-rate result.
PredictRateAnswers ==
    { [ok |-> TRUE, status |-> 200, error |-> "", requestId |-> q] : q \in IssuedRequestIds }
    \cup { [ok |-> FALSE, status |-> 400, requestId |-> "",
            error |-> "Missing required fields: origin, destination, cargoType, weight"],
           [ok |-> FALSE, status |-> 500, requestId |-> "",
            error |-> "Internal server error"] }

ConfirmBookingAnswers ==
    { [ok |-> TRUE, status |-> 200, error |-> "", requestId |-> ""],
      [ok |-> FALSE, status |-> 400, requestId |-> "",
       error |-> "Missing required fields: requestId, bookingId, finalPrice"],
      [ok |-> FALSE, status |-> 500, requestId |-> "", error |-> "Internal server error"] }

DeclineQuoteAnswers ==
    { [ok |-> TRUE, status |-> 200, error |-> "", requestId |-> ""],
      [ok |-> FALSE, status |-> 400, requestId |-> "",
       error |-> "Missing required field: requestId"],
      [ok |-> FALSE, status |-> 500, requestId |-> "", error |-> "Internal server error"] }

\* The page as it is mounted: App's currentQuote, isLoading and error,
\* QuoteResult's isProcessing and message; pending is the handler of
\* QuoteResult that awaits its fetch, submitAnswer and actionAnswer the last
\* response each kind of request received.
InitClient ==
    /\ call = [fn |-> "App", currentQuote |-> Null, isLoading |-> FALSE, error |-> Null,
               isProcessing |-> FALSE, message |-> NoMessage, pending |-> "none",
               submitAnswer |-> NoAnswer, actionAnswer |-> NoAnswer]
    /\ quote = NoQuote
    /\ StoreIdle

\* The form is submitted (its button is disabled while isLoading):
\* handleQuoteSubmit up to its fetch.
HandleQuoteSubmit ==
    /\ ~call.isLoading
    /\ call' = [call EXCEPT !.isLoading = TRUE, !.error = Null]
    /\ UNCHANGED <<quote, dataFile, analyticsFile, reqs>>

\* The fetch of predict-rate resolves: the result becomes currentQuote, or
\* the handler throws its own Error and the catch block stores its message.
QuoteSubmitAnswered ==
    /\ call.isLoading
    /\ \E answer \in PredictRateAnswers :
          call' = [call EXCEPT
                     !.currentQuote = IF answer.ok THEN answer.requestId ELSE @,
                     !.error        = IF answer.ok THEN @ ELSE "Failed to get rate prediction",
                     !.isLoading    = FALSE,
                     !.submitAnswer = answer]
    /\ UNCHANGED <<quote, dataFile, analyticsFile, reqs>>

\* 'Confirm Booking' is clicked (QuoteResult is rendered when there is a
\* currentQuote, the button is disabled while isProcessing).
HandleBookingConfirm ==
    /\ call.currentQuote # Null /\ ~call.isProcessing
    /\ call' = [call EXCEPT !.isProcessing = TRUE, !.message = NoMessage,
                            !.pending = "confirm"]
    /\ UNCHANGED <<quote, dataFile, analyticsFile, reqs>>

\* The fetch of confirm-booking resolves: App's handler returns the result
\* or throws, QuoteResult sets its banner and re-enables the buttons.
BookingConfirmAnswered ==
    /\ call.pending = "confirm"
    /\ \E answer \in ConfirmBookingAnswers :
          call' = [call EXCEPT
                     !.message =
                        IF answer.ok
                        THEN [type |-> "success",
                              text |-> "Booking confirmed successfully! Data logged for model training."]
                        ELSE [type |-> "error",
                              text |-> "Failed to confirm booking. Please try again."],
                     !.isProcessing = FALSE,
                     !.pending      = "none",
                     !.actionAnswer = answer]
    /\ UNCHANGED <<quote, dataFile, analyticsFile, reqs>>

\* 'Decline Quote' is clicked.
HandleQuoteDecline ==
    /\ call.currentQuote # Null /\ ~call.isProcessing
    /\ call' = [call EXCEPT !.isProcessing = TRUE, !.message = NoMessage,
                            !.pending = "decline"]
    /\ UNCHANGED <<quote, dataFile, analyticsFile, reqs>>

\* The fetch of decline-quote resolves.
QuoteDeclineAnswered ==
    /\ call.pending = "decline"
    /\ \E answer \in DeclineQuoteAnswers :
          call' = [call EXCEPT
                     !.message =
                        IF answer.ok
                        THEN [type |-> "success",
                              text |-> "Quote decline logged for model training."]
                        ELSE [type |-> "error",
                              text |-> "Failed to log quote decline. Please try again."],
                     !.isProcessing = FALSE,
                     !.pending      = "none",
                     !.actionAnswer = answer]
    /\ UNCHANGED <<quote, dataFile, analyticsFile, reqs>>

NextClient ==
    \/ HandleQuoteSubmit
    \/ QuoteSubmitAnswered
    \/ HandleBookingConfirm
    \/ BookingConfirmAnswered
    \/ HandleQuoteDecline
    \/ QuoteDeclineAnswered

SpecClient == InitClient /\ [][NextClient]_vars

\* C24 as claimed: once handleQuoteSubmit has finished on a non-2xx answer,
\* the form's error state is the error field of the answer; once a confirm
\* or decline has finished on a non-2xx answer, the banner's text is the
\* error field of the answer.
C24_ClientShowsServerError ==
    /\ (~call.isLoading /\ ~call.submitAnswer.ok) => call.error = call.submitAnswer.error
    /\ (call.pending = "none" /\ ~call.actionAnswer.ok) =>
          call.message.text = call.actionAnswer.error

(***************************************************************************)
(* predict-rate requests served concurrently with each other and with the *)
(* store's routes.  Each request carries the random samples and the clock  *)
(* readings its steps will see, fixed when it arrives.                     *)
(***************************************************************************)

ConcurrentBodies ==
    { [origin |-> "Shanghai", destination |-> "Los Angeles", cargoType |-> "general",
       weight |-> 500, volume |-> 5, serviceType |-> "standard",
       customerId |-> "customer-001", forwarderId |-> "forwarder-001"],
      [origin |-> "Tokyo", destination |-> "Los Angeles", cargoType |-> "hazardous",
       weight |-> 2500, volume |-> 60, serviceType |-> "economy",
       customerId |-> "cu", forwarderId |-> "forwarder-001"],
      [origin |-> "Shanghai", destination |-> "Los Angeles", weight |-> 500] }

\* rnd: the sample of calculateBaseCost; d: the clock and samples of
\* getMarketData; month: moment().month() at the prediction.
ConcurrentDraws ==
    { [rnd |-> 0, month |-> 0,
       d |-> [hour |-> 3, sin |-> -1000, congestion |-> 0, bunkerFuel |-> 0,
              shanghaiIndex |-> 0, weather |-> 0, index |-> 0, volatility |-> 0]],
      [rnd |-> 999, month |-> 7,
       d |-> [hour |-> 12, sin |-> 1000, congestion |-> 999, bunkerFuel |-> 999,
              shanghaiIndex |-> 999, weather |-> 999, index |-> 999, volatility |-> 999]] }

\* The payload of res.json in step 4, or of the catch block.
PredictRateResponse(costData, marketData, prediction) ==
    IF prediction.throws
    THEN [status  |-> 500,
          error   |-> "Internal server error",
          message |-> prediction.message]
    ELSE [status          |-> 200,
          nan             |-> prediction.nan,
          predictedPrice  |-> prediction.price,
          confidenceScore |-> prediction.confidence,
          confidenceBand  |-> prediction.confidenceBand,
          marginRange     |-> prediction.marginRange,
          breakdown       |-> [baseCost         |-> costData.baseCost,
                               surcharges       |-> costData.surcharges,
                               marketAdjustment |-> marketData.adjustment,
                               mlPrediction     |-> prediction.mlAdjustment]]

\* POST /api/predict-rate up to its first await: 400, or the call of
\* getCostData.
PredictRate(body, draws) ==
    /\ Len(reqs) < MaxRequests
    /\ InFlight(reqs) < MaxInFlight
    /\ LET r == NewRequest("predict", body, LogSteps(reqs)) @@ [draws |-> draws]
       IN  reqs' = Append(reqs,
                IF PredictRateMissing(body)
                THEN [r EXCEPT !.pc = "responded"]
                     @@ [response |->
                           [status |-> 400,
                            error  |-> "Missing required fields: origin, destination, cargoType, weight"]]
                ELSE [r EXCEPT !.pc = "awaitCost"])
    /\ UNCHANGED <<call, quote, dataFile, analyticsFile>>

\* A connector that keeps the params of its last call on the singleton and
\* reads them after the delay: the cost data is that of the predict-rate
\* request that called last.
PredictCostReturned_lastCaller(i) ==
    /\ reqs[i].kind = "predict" /\ reqs[i].pc = "awaitCost"
    /\ LET last == CHOOSE j \in DOMAIN reqs :
                      /\ reqs[j].kind = "predict" /\ ~PredictRateMissing(reqs[j].body)
                      /\ \A k \in DOMAIN reqs :
                            (reqs[k].kind = "predict" /\ ~PredictRateMissing(reqs[k].body))
                               => k <= j
       IN  \E costData \in getCostData(reqs[last].body, reqs[i].draws.rnd) :
              reqs' = [reqs EXCEPT ![i] = [reqs[i] EXCEPT !.pc = "awaitMarket"]
                                          @@ [costData |-> costData]]
    /\ UNCHANGED <<call, quote, dataFile, analyticsFile>>

\* Step 1 of request i returns; step 2 is called.
PredictCostReturned(i) ==
    /\ reqs[i].kind = "predict" /\ reqs[i].pc = "awaitCost"
    /\ \E costData \in getCostData(reqs[i].body, reqs[i].draws.rnd) :
          reqs' = [reqs EXCEPT ![i] = [reqs[i] EXCEPT !.pc = "awaitMarket"]
                                      @@ [costData |-> costData]]
    /\ UNCHANGED <<call, quote, dataFile, analyticsFile>>

\* Step 2 of request i returns; step 3 is called.
PredictMarketReturned(i) ==
    /\ reqs[i].kind = "predict" /\ reqs[i].pc = "awaitMarket"
    /\ \E marketData \in getMarketData(reqs[i].body, reqs[i].draws.d) :
          reqs' = [reqs EXCEPT ![i] = [reqs[i] EXCEPT !.pc = "awaitPrediction"]
                                      @@ [marketData |-> marketData]]
    /\ UNCHANGED <<call, quote, dataFile, analyticsFile>>

\* Step 3 of request i returns or throws; the response is written.
PredictRespond(i) ==
    /\ reqs[i].kind = "predict" /\ reqs[i].pc = "awaitPrediction"
    /\ \E prediction \in predictOptimalPrice(
            reqs[i].body @@ [costData |-> reqs[i].costData,
                             marketData |-> reqs[i].marketData],
            reqs[i].draws.month) :
          reqs' = [reqs EXCEPT ![i] =
                      [reqs[i] EXCEPT !.pc = "responded"]
                      @@ [response |-> PredictRateResponse(reqs[i].costData,
                                                           reqs[i].marketData, prediction)]]
    /\ UNCHANGED <<call, quote, dataFile, analyticsFile>>

NextConcurrent ==
    \/ \E body \in ConcurrentBodies : \E draws \in ConcurrentDraws : PredictRate(body, draws)
    \/ ConfirmBooking(ConfirmBody)
    \/ DeclineQuote(DeclineBody)
    \/ GetAnalytics
    \/ \E i \in DOMAIN reqs :
          \/ PredictCostReturned(i)
          \/ PredictMarketReturned(i)
          \/ PredictRespond(i)
          \/ LogLoadTrainingData(i, FALSE)
          \/ LogSaveTrainingData(i)
          \/ LogLoadAnalytics(i, FALSE)
          \/ LogSaveAnalytics(i)
          \/ AnalyticsLoadAnalytics(i, FALSE)
          \/ AnalyticsLoadTrainingData(i, FALSE)

SpecConcurrent == InitStore /\ [][NextConcurrent]_vars

\* The responses a predict-rate request with this body can receive under
\* these draws when it is the only request the server handles.
AloneResponses(body, draws) ==
    IF PredictRateMissing(body)
    THEN { [status |-> 400,
            error  |-> "Missing required fields: origin, destination, cargoType, weight"] }
    ELSE UNION { UNION {
           { PredictRateResponse(costData, marketData, prediction)
             : prediction \in predictOptimalPrice(
                   body @@ [costData |-> costData, marketData |-> marketData],
                   draws.month) }
           : marketData \in getMarketData(body, draws.d) }
         : costData \in getCostData(body, draws.rnd) }

\* C26: the response to a predict-rate request is one it receives under the
\* same random samples and clock when it runs alone, however its steps are
\* interleaved with those of other predict-rate, confirm-booking,
\* decline-quote and analytics requests.
C26_ResponseAsIfAlone ==
    \A i \in DOMAIN reqs :
        (reqs[i].kind = "predict" /\ reqs[i].pc = "responded") =>
            reqs[i].response \in AloneResponses(reqs[i].body, reqs[i].draws)

\* Two predict-rate requests with different bodies were in flight together
\* and both have been answered 200, the second while a confirm-booking
\* request was running.
C26_Witness ==
    /\ Len(reqs) = 3
    /\ reqs[1].kind = "predict" /\ reqs[2].kind = "predict" /\ reqs[3].kind = "confirm"
    /\ reqs[1].body # reqs[2].body
    /\ reqs[2].overlapped /\ reqs[3].overlapped
    /\ reqs[1].pc = "responded" /\ reqs[1].response.status = 200
    /\ reqs[2].pc = "responded" /\ reqs[2].response.status = 200
    /\ reqs[3].pc = "responded" /\ reqs[3].done > reqs[2].seen

(***************************************************************************)
(* initializeDataStore, which the constructor starts and does not await,   *)
(* running while confirm-booking and decline-quote requests are served.    *)
(* The data directory exists; each document is present or absent.          *)
(***************************************************************************)

\* A document that does not exist: fs.access rejects, fs.readFile rejects
\* (so it reads as not ok).
AbsentTrainingFile == [ok |-> FALSE, absent |-> TRUE, bookings |-> <<>>, declines |-> <<>>]

AbsentAnalyticsFile ==
    [ok |-> FALSE, absent |-> TRUE, totalRequests |-> 0, totalBookings |-> 0,
     totalDeclines |-> 0, winRate |-> <<0, 1>>]

\* Whether fs.access(file) resolves.
Accessible(file) == ~Has(file, "absent")

\* The documents an earlier run left behind: one booking, counted.
EarlierTrainingFile ==
    TrainingFile([bookings |-> <<TrainingRecord(0, ConfirmBody, "booking")>>,
                  declines |-> <<>>])

EarlierAnalyticsFile == AnalyticsFile(updatedAnalytics(ZeroAnalytics, "booking"))

InitBoot ==
    /\ call = [fn |-> "initializeDataStore", pc |-> "mkdir"]
    /\ quote = NoQuote
    /\ reqs = <<>>
    /\ dataFile \in {AbsentTrainingFile, EarlierTrainingFile}
    /\ analyticsFile \in {AbsentAnalyticsFile, EarlierAnalyticsFile}

\* fs.mkdir(..., {recursive: true}) resolves; fs.access(dataFile) is called.
InitMkdir ==
    /\ call.fn = "initializeDataStore" /\ call.pc = "mkdir"
    /\ call' = [call EXCEPT !.pc = "accessData"]
    /\ UNCHANGED <<quote, dataFile, analyticsFile, reqs>>

\* fs.access(dataFile) settles: on rejection the catch block calls
\* fs.writeFile with the empty document.
InitAccessTrainingData ==
    /\ call.fn = "initializeDataStore" /\ call.pc = "accessData"
    /\ call' = [call EXCEPT !.pc = IF Accessible(dataFile) THEN "accessAnalytics"
                                   ELSE "writeData"]
    /\ UNCHANGED <<quote, dataFile, analyticsFile, reqs>>

\* That fs.writeFile completes; fs.access(analyticsFile) is called.
InitWriteTrainingData ==
    /\ call.fn = "initializeDataStore" /\ call.pc = "writeData"
    /\ dataFile' = TrainingFile(EmptyTrainingData)
    /\ call' = [call EXCEPT !.pc = "accessAnalytics"]
    /\ UNCHANGED <<quote, analyticsFile, reqs>>

\* fs.access(analyticsFile) settles.
InitAccessAnalytics ==
    /\ call.fn = "initializeDataStore" /\ call.pc = "accessAnalytics"
    /\ call' = [call EXCEPT !.pc = IF Accessible(analyticsFile) THEN "done"
                                   ELSE "writeAnalytics"]
    /\ UNCHANGED <<quote, dataFile, analyticsFile, reqs>>

\* fs.writeFile of the zeroed counters completes.
InitWriteAnalytics ==
    /\ call.fn = "initializeDataStore" /\ call.pc = "writeAnalytics"
    /\ analyticsFile' = AnalyticsFile(ZeroAnalytics)
    /\ call' = [call EXCEPT !.pc = "done"]
    /\ UNCHANGED <<quote, dataFile, reqs>>

\* The requests served while the store initializes.
MaxBootRequests == 2

NextBoot ==
    \/ InitMkdir
    \/ InitAccessTrainingData
    \/ InitWriteTrainingData
    \/ InitAccessAnalytics
    \/ InitWriteAnalytics
    \/ Len(reqs) < MaxBootRequests /\ ConfirmBooking(ConfirmBody)
    \/ Len(reqs) < MaxBootRequests /\ DeclineQuote(DeclineBody)
    \/ \E i \in DOMAIN reqs :
          \/ LogLoadTrainingData(i, FALSE)
          \/ LogSaveTrainingData(i)
          \/ LogLoadAnalytics(i, FALSE)
          \/ LogSaveAnalytics(i)

SpecBoot == InitBoot /\ [][NextBoot]_vars

\* C28 as claimed: once initializeDataStore and the log calls it ran beside
\* have finished, none of the log calls having overlapped another, every
\* event a log call stored is in its array and the counters count at least
\* the events logged.
C28_InitKeepsLoggedData ==
    (call.pc = "done" /\ NoOverlap /\ InFlight(reqs) = 0) =>
        /\ \A i \in Answered("confirm", 200) :
              \E k \in DOMAIN dataFile.bookings : dataFile.bookings[k].id = i
        /\ \A i \in Answered("decline", 200) :
              \E k \in DOMAIN dataFile.declines : dataFile.declines[k].id = i
        /\ analyticsFile.totalBookings >= Cardinality(Answered("confirm", 200))
        /\ analyticsFile.totalDeclines >= Cardinality(Answered("decline", 200))

\* C29 as claimed: the store never holds two events, of either kind, with
\* the same requestId, and the requestId of every event is one predict-rate
\* issued; here for requests made one after the other, as the buttons of
\* QuoteResult allow.
C29_OneOutcomePerQuote ==
    NoOverlap =>
        LET events == dataFile.bookings \o dataFile.declines
        IN  /\ \A j, k \in DOMAIN events :
                  j # k => events[j].requestId # events[k].requestId
            /\ \A j \in DOMAIN events : events[j].requestId \in IssuedRequestIds

=============================================================================
